---- MODULE Spec2Model ----
(***************************************************************************)
(* Unified transcription (ASR) client of aisuite-js: model identifier      *)
(* parser, error taxonomy, dispatch client and the three provider          *)
(* adapters (OpenAI, Deepgram, Google Cloud).                              *)
(*                                                                         *)
(* Strings the code takes apart (model identifiers, parameter keys,        *)
(* provider keys, error messages) are sequences of tokens.  A token is a   *)
(* run of characters the code never splits: the separator ":" is a token   *)
(* of its own, and so is each provider prefix ("openai_", ...).  String    *)
(* concatenation is \o, split/startsWith/substring/join/includes are       *)
(* computed on the token sequences.  Parameter values are JavaScript       *)
(* literals written as strings ("true", "false", "'verbose_json'", ...).   *)
(***************************************************************************)
EXTENDS Integers, Sequences, FiniteSets, TLC

VARIABLES
  config,          \* the ASRProviderConfigs object given to the constructor
  providers,       \* ASRClient.providers: the Map, as <<key, adapter name>> pairs in insertion order
  call,            \* the operation invoked last and its arguments
  outcome,         \* what that invocation returned, threw, resolved or rejected with
  transcribeCalls  \* adapter.transcribe invocations made by the current invocation

vars == <<config, providers, call, outcome, transcribeCalls>>

(***************************************************************************)
(* Bounds                                                                  *)
(***************************************************************************)
MaxIdLen == 4      \* tokens in a model identifier
MaxParams == 2     \* entries in a params object
MaxWords == 2      \* entries in a word list of a response
MaxTime == 1       \* seconds on the clock of a response
MaxCalls == 2      \* create invocations in flight on one client

(***************************************************************************)
(* JavaScript string and value helpers                                     *)
(***************************************************************************)
Undefined == "undefined"

\* !value
Falsy(v) == v \in {"false", "0", "''", "null", "undefined", "NaN"}
Truthy(v) == ~Falsy(v)

\* !s for a string s: only the empty string is falsy
EmptyString(s) == Len(s) = 0

\* String.prototype.split(sep) for a one-token separator
RECURSIVE Split(_, _)
Split(s, sep) ==
  IF \A i \in 1..Len(s) : s[i] # sep
    THEN <<s>>
    ELSE LET i == CHOOSE k \in 1..Len(s) :
                     s[k] = sep /\ \A j \in 1..(k - 1) : s[j] # sep
         IN <<SubSeq(s, 1, i - 1)>> \o Split(SubSeq(s, i + 1, Len(s)), sep)

\* Array.prototype.join(sep)
RECURSIVE Join(_, _)
Join(parts, sep) ==
  IF Len(parts) = 0 THEN <<>>
  ELSE IF Len(parts) = 1 THEN parts[1]
  ELSE parts[1] \o sep \o Join(Tail(parts), sep)

\* String.prototype.startsWith(prefix)
StartsWith(s, prefix) ==
  Len(s) >= Len(prefix) /\ SubSeq(s, 1, Len(prefix)) = prefix

\* String.prototype.substring(n), n counted in tokens
Substring(s, n) == SubSeq(s, n + 1, Len(s))

\* String.prototype.includes(part)
Includes(s, part) ==
  \E i \in 0..(Len(s) - Len(part)) : SubSeq(s, i + 1, i + Len(part)) = part

\* Array.prototype.includes(x)
ArrayIncludes(arr, x) == \E i \in 1..Len(arr) : arr[i] = x

(***************************************************************************)
(* core/errors.ts                                                          *)
(***************************************************************************)
\* new Error(message): no provider, no code
PlainError(message) ==
  [class |-> "Error", message |-> message, provider |-> <<>>, code |-> Undefined]

\* the TypeError of a property read on null
TypeError(field) ==
  [class |-> "TypeError",
   message |-> <<"Cannot read properties of null (reading '", field, "')">>,
   provider |-> <<>>, code |-> Undefined]

ASRError(message, provider, code) ==
  [class |-> "ASRError", message |-> message, provider |-> provider, code |-> code]

UnsupportedParameterError(parameter, provider) ==
  [class |-> "UnsupportedParameterError",
   message |-> <<"Parameter '">> \o parameter
               \o <<"' is not supported by provider '">> \o provider \o <<"'">>,
   provider |-> provider,
   code |-> "UNSUPPORTED_PARAMETER"]

ProviderNotConfiguredError(provider, availableProviders) ==
  [class |-> "ProviderNotConfiguredError",
   message |-> <<"Provider '">> \o provider
               \o <<"' is not configured. Available providers: ">>
               \o Join(availableProviders, <<", ">>),
   provider |-> provider,
   code |-> "PROVIDER_NOT_CONFIGURED"]

AudioProcessingError(message, provider) ==
  [class |-> "AudioProcessingError", message |-> message, provider |-> provider,
   code |-> "AUDIO_PROCESSING_ERROR"]

\* instanceof ASRError
IsASRError(e) ==
  e.class \in {"ASRError", "UnsupportedParameterError",
               "ProviderNotConfiguredError", "AudioProcessingError"}

(***************************************************************************)
(* core/model-parser.ts                                                    *)
(***************************************************************************)
Returned(v) == [status |-> "returned", value |-> v]
Threw(e) == [status |-> "threw", error |-> e]

\* parseModel returning { provider, model } with the parameter model, not modelName
parseModel_fullModel(model) ==
  LET parts == Split(model, ":") IN
  IF Len(parts) # 2
    THEN Threw(PlainError(<<"Invalid model format: \"">> \o model
                          \o <<"\". Expected format: \"", "provider:model", "\"">>))
  ELSE IF EmptyString(parts[1]) \/ EmptyString(parts[2])
    THEN Threw(PlainError(<<"Invalid model format: \"">> \o model
                          \o <<"\". Both provider and model name are required.">>))
  ELSE Returned([provider |-> parts[1], model |-> model])

\* parseModel without the check for an empty segment
parseModel_noEmptyCheck(model) ==
  LET parts == Split(model, ":") IN
  IF Len(parts) # 2
    THEN Threw(PlainError(<<"Invalid model format: \"">> \o model
                          \o <<"\". Expected format: \"", "provider:model", "\"">>))
  ELSE Returned([provider |-> parts[1], model |-> parts[2]])

\* parseModel throwing a typed error with one message for both failures
parseModel_typedError(model) ==
  LET parts == Split(model, ":") IN
  IF Len(parts) # 2 \/ EmptyString(parts[1]) \/ EmptyString(parts[2])
    THEN Threw([class |-> "ModelFormatError",
                message |-> <<"Invalid model format: \"">> \o model
                            \o <<"\". Expected format: \"", "provider:model", "\"">>,
                provider |-> <<>>, code |-> "MODEL_FORMAT"])
  ELSE Returned([provider |-> parts[1], model |-> parts[2]])

parseModel(model) ==
  LET parts == Split(model, ":") IN
  IF Len(parts) # 2
    THEN Threw(PlainError(<<"Invalid model format: \"">> \o model
                          \o <<"\". Expected format: \"", "provider:model", "\"">>))
  ELSE IF EmptyString(parts[1]) \/ EmptyString(parts[2])
    THEN Threw(PlainError(<<"Invalid model format: \"">> \o model
                          \o <<"\". Both provider and model name are required.">>))
  ELSE Returned([provider |-> parts[1], model |-> parts[2]])

(***************************************************************************)
(* client.ts: the registry                                                 *)
(***************************************************************************)
ProviderKeys == {"openai", "deepgram", "google"}

\* Map.prototype.set / get / has / keys on the insertion-ordered pair list
MapHas(m, k) == \E i \in 1..Len(m) : m[i][1] = k
MapGet(m, k) ==
  IF MapHas(m, k) THEN (m[CHOOSE i \in 1..Len(m) : m[i][1] = k])[2] ELSE Undefined
MapSet(m, k, v) ==
  IF MapHas(m, k)
    THEN [i \in 1..Len(m) |-> IF m[i][1] = k THEN <<k, v>> ELSE m[i]]
    ELSE Append(m, <<k, v>>)
MapKeys(m) == [i \in 1..Len(m) |-> m[i][1]]

\* initializeProviders registering the adapters in another order
initializeProviders_googleFirst(cfg) ==
  LET p0 == <<>>
      p1 == IF Truthy(cfg.google) THEN MapSet(p0, <<"google">>, "google") ELSE p0
      p2 == IF Truthy(cfg.deepgram) THEN MapSet(p1, <<"deepgram">>, "deepgram") ELSE p1
      p3 == IF Truthy(cfg.openai) THEN MapSet(p2, <<"openai">>, "openai") ELSE p2
  IN p3

\* ASRClient.initializeProviders; an adapter instance is represented by its name
initializeProviders(cfg) ==
  LET p0 == <<>>
      p1 == IF Truthy(cfg.openai) THEN MapSet(p0, <<"openai">>, "openai") ELSE p0
      p2 == IF Truthy(cfg.deepgram) THEN MapSet(p1, <<"deepgram">>, "deepgram") ELSE p1
      p3 == IF Truthy(cfg.google) THEN MapSet(p2, <<"google">>, "google") ELSE p2
  IN p3

listProviders(m) == MapKeys(m)
isProviderConfigured(m, provider) == MapHas(m, provider)

(***************************************************************************)
(* Parameter keys and objects                                              *)
(***************************************************************************)
OpenAIPrefix == <<"openai_">>
DeepgramPrefix == <<"deepgram_">>
GooglePrefix == <<"google_">>

\* an ordered key -> value object: entries in insertion order, keys distinct
IsObject(entries) ==
  \A i, j \in 1..Len(entries) : entries[i][1] = entries[j][1] => i = j
HasKey(entries, k) == \E i \in 1..Len(entries) : entries[i][1] = k
ValueOf(entries, k) ==
  IF HasKey(entries, k)
    THEN (entries[CHOOSE i \in 1..Len(entries) : entries[i][1] = k])[2]
    ELSE Undefined

\* obj[key] = value: a new key is appended, an existing key keeps its position
Put(obj, k, v) ==
  IF HasKey(obj, k)
    THEN [i \in 1..Len(obj) |-> IF obj[i][1] = k THEN <<k, v>> ELSE obj[i]]
    ELSE Append(obj, <<k, v>>)
EmptyObject == <<>>
\* obj[key]
Prop(obj, k) == ValueOf(obj, k)
\* { ...a, ...b }
RECURSIVE Spread(_, _)
Spread(a, b) ==
  IF Len(b) = 0 THEN a ELSE Spread(Put(a, b[1][1], b[1][2]), Tail(b))
\* the key -> value mapping of an object, insertion order forgotten
AsMap(obj) == [k \in {obj[i][1] : i \in 1..Len(obj)} |-> ValueOf(obj, k)]

(***************************************************************************)
(* providers/openai/provider.ts                                            *)
(***************************************************************************)
OpenAISupported ==
  {<<"language">>, <<"timestamps">>, <<"temperature">>, <<"prompt">>, <<"response_format">>}
OpenAIUnsupported == << <<"word_confidence">>, <<"speaker_labels">> >>

Warned(warnings) == [status |-> "returned", warnings |-> warnings]

\* validateParams rejecting every key it does not know instead of warning
RECURSIVE OpenAI_validateLoop_strict(_, _)
OpenAI_validateLoop_strict(entries, warnings) ==
  IF Len(entries) = 0 THEN Warned(warnings)
  ELSE LET key == entries[1][1] IN
    IF ArrayIncludes(OpenAIUnsupported, key)
       \/ (key \notin OpenAISupported /\ ~StartsWith(key, OpenAIPrefix))
      THEN Threw(UnsupportedParameterError(key, <<"openai">>))
    ELSE OpenAI_validateLoop_strict(Tail(entries), warnings)

RECURSIVE OpenAI_validateLoop(_, _)
OpenAI_validateLoop(entries, warnings) ==
  IF Len(entries) = 0 THEN Warned(warnings)
  ELSE LET key == entries[1][1] IN
    IF ArrayIncludes(OpenAIUnsupported, key)
      THEN Threw(UnsupportedParameterError(key, <<"openai">>))
    ELSE IF key \notin OpenAISupported /\ ~StartsWith(key, OpenAIPrefix)
      THEN OpenAI_validateLoop(Tail(entries),
             Append(warnings, <<"Parameter '">> \o key
                              \o <<"' may not be supported by OpenAI ASR">>))
    ELSE OpenAI_validateLoop(Tail(entries), warnings)

OpenAI_validateParams(model, params) == OpenAI_validateLoop(params, <<>>)

\* translateParams setting response_format whenever timestamps is present
RECURSIVE OpenAI_translateLoop_anyTimestamps(_, _)
OpenAI_translateLoop_anyTimestamps(entries, translated) ==
  IF Len(entries) = 0 THEN translated
  ELSE LET key == entries[1][1]
           value == entries[1][2]
           rest == Tail(entries)
       IN
    IF key = <<"language">>
      THEN OpenAI_translateLoop_anyTimestamps(rest, Put(translated, <<"language">>, value))
    ELSE IF key = <<"timestamps">>
      THEN OpenAI_translateLoop_anyTimestamps(rest,
             Put(translated, <<"response_format">>, "'verbose_json'"))
    ELSE IF key = <<"temperature">>
      THEN OpenAI_translateLoop_anyTimestamps(rest, Put(translated, <<"temperature">>, value))
    ELSE IF StartsWith(key, OpenAIPrefix)
      THEN OpenAI_translateLoop_anyTimestamps(rest,
             Put(translated, Substring(key, Len(OpenAIPrefix)), value))
    ELSE OpenAI_translateLoop_anyTimestamps(rest, Put(translated, key, value))

RECURSIVE OpenAI_translateLoop(_, _)
OpenAI_translateLoop(entries, translated) ==
  IF Len(entries) = 0 THEN translated
  ELSE LET key == entries[1][1]
           value == entries[1][2]
           rest == Tail(entries)
       IN
    IF key = <<"language">>
      THEN OpenAI_translateLoop(rest, Put(translated, <<"language">>, value))
    ELSE IF key = <<"timestamps">>
      THEN OpenAI_translateLoop(rest,
             IF Truthy(value)
               THEN Put(translated, <<"response_format">>, "'verbose_json'")
               ELSE translated)
    ELSE IF key = <<"temperature">>
      THEN OpenAI_translateLoop(rest, Put(translated, <<"temperature">>, value))
    ELSE IF StartsWith(key, OpenAIPrefix)
      THEN OpenAI_translateLoop(rest,
             Put(translated, Substring(key, Len(OpenAIPrefix)), value))
    ELSE OpenAI_translateLoop(rest, Put(translated, key, value))

\* translateParams returning from inside its timestamps case: the entries
\* after it are not translated
OpenAI_translateParams_returnsEarly(model, params) ==
  LET stops == {i \in 1..Len(params) : params[i][1] = <<"timestamps">>}
      last == IF stops = {} THEN Len(params)
              ELSE CHOOSE i \in stops : \A j \in stops : i <= j
  IN OpenAI_translateLoop(SubSeq(params, 1, last), EmptyObject)

OpenAI_translateParams(model, params) == OpenAI_translateLoop(params, EmptyObject)

(***************************************************************************)
(* providers/deepgram/provider.ts                                          *)
(***************************************************************************)
DeepgramSupported ==
  {<<"language">>, <<"timestamps">>, <<"word_confidence">>, <<"speaker_labels">>,
   <<"smart_format">>, <<"punctuate">>, <<"diarize">>, <<"utterances">>}

RECURSIVE Deepgram_validateLoop(_, _)
Deepgram_validateLoop(entries, warnings) ==
  IF Len(entries) = 0 THEN Warned(warnings)
  ELSE LET key == entries[1][1] IN
    IF key \notin DeepgramSupported /\ ~StartsWith(key, DeepgramPrefix)
      THEN Deepgram_validateLoop(Tail(entries),
             Append(warnings, <<"Parameter '">> \o key
                              \o <<"' may not be supported by Deepgram ASR">>))
    ELSE Deepgram_validateLoop(Tail(entries), warnings)

Deepgram_validateParams(model, params) == Deepgram_validateLoop(params, <<>>)

\* translateParams copying each feature switch's value to its native flag
RECURSIVE Deepgram_translateLoop_copiesSwitch(_, _)
Deepgram_translateLoop_copiesSwitch(entries, translated) ==
  IF Len(entries) = 0 THEN translated
  ELSE LET key == entries[1][1]
           value == entries[1][2]
           rest == Tail(entries)
       IN
    IF key = <<"language">>
      THEN Deepgram_translateLoop_copiesSwitch(rest, Put(translated, <<"language">>, value))
    ELSE IF key = <<"timestamps">>
      THEN Deepgram_translateLoop_copiesSwitch(rest, Put(translated, <<"utterances">>, value))
    ELSE IF key = <<"word_confidence">>
      THEN Deepgram_translateLoop_copiesSwitch(rest, Put(translated, <<"smart_format">>, value))
    ELSE IF key = <<"speaker_labels">>
      THEN Deepgram_translateLoop_copiesSwitch(rest, Put(translated, <<"diarize">>, value))
    ELSE IF StartsWith(key, DeepgramPrefix)
      THEN Deepgram_translateLoop_copiesSwitch(rest,
             Put(translated, Substring(key, Len(DeepgramPrefix)), value))
    ELSE Deepgram_translateLoop_copiesSwitch(rest, Put(translated, key, value))

RECURSIVE Deepgram_translateLoop(_, _)
Deepgram_translateLoop(entries, translated) ==
  IF Len(entries) = 0 THEN translated
  ELSE LET key == entries[1][1]
           value == entries[1][2]
           rest == Tail(entries)
       IN
    IF key = <<"language">>
      THEN Deepgram_translateLoop(rest, Put(translated, <<"language">>, value))
    ELSE IF key = <<"timestamps">>
      THEN Deepgram_translateLoop(rest,
             IF Truthy(value) THEN Put(translated, <<"utterances">>, "true")
                              ELSE translated)
    ELSE IF key = <<"word_confidence">>
      THEN Deepgram_translateLoop(rest,
             IF Truthy(value) THEN Put(translated, <<"smart_format">>, "true")
                              ELSE translated)
    ELSE IF key = <<"speaker_labels">>
      THEN Deepgram_translateLoop(rest,
             IF Truthy(value) THEN Put(translated, <<"diarize">>, "true")
                              ELSE translated)
    ELSE IF StartsWith(key, DeepgramPrefix)
      THEN Deepgram_translateLoop(rest,
             Put(translated, Substring(key, Len(DeepgramPrefix)), value))
    ELSE Deepgram_translateLoop(rest, Put(translated, key, value))

Deepgram_translateParams(model, params) == Deepgram_translateLoop(params, EmptyObject)

(***************************************************************************)
(* providers/google/provider.ts                                            *)
(***************************************************************************)
GoogleSupported ==
  {<<"language">>, <<"timestamps">>, <<"word_confidence">>, <<"speaker_labels">>,
   <<"enable_word_time_offsets">>, <<"enable_word_confidence">>,
   <<"enable_speaker_diarization">>, <<"diarization_speaker_count">>,
   <<"enable_automatic_punctuation">>}

RECURSIVE Google_validateLoop(_, _)
Google_validateLoop(entries, warnings) ==
  IF Len(entries) = 0 THEN Warned(warnings)
  ELSE LET key == entries[1][1] IN
    IF key \notin GoogleSupported /\ ~StartsWith(key, GooglePrefix)
      THEN Google_validateLoop(Tail(entries),
             Append(warnings, <<"Parameter '">> \o key
                              \o <<"' may not be supported by Google Cloud ASR">>))
    ELSE Google_validateLoop(Tail(entries), warnings)

Google_validateParams(model, params) == Google_validateLoop(params, <<>>)

\* translateParams passing Google-prefixed keys through with their prefix
RECURSIVE Google_translateLoop_keepsPrefix(_, _)
Google_translateLoop_keepsPrefix(entries, translated) ==
  IF Len(entries) = 0 THEN translated
  ELSE LET key == entries[1][1]
           value == entries[1][2]
           rest == Tail(entries)
       IN
    IF key = <<"language">>
      THEN Google_translateLoop_keepsPrefix(rest, Put(translated, <<"languageCode">>, value))
    ELSE IF key = <<"timestamps">>
      THEN Google_translateLoop_keepsPrefix(rest,
             IF Truthy(value) THEN Put(translated, <<"enableWordTimeOffsets">>, "true")
                              ELSE translated)
    ELSE IF key = <<"word_confidence">>
      THEN Google_translateLoop_keepsPrefix(rest,
             IF Truthy(value) THEN Put(translated, <<"enableWordConfidence">>, "true")
                              ELSE translated)
    ELSE IF key = <<"speaker_labels">>
      THEN Google_translateLoop_keepsPrefix(rest,
             IF Truthy(value)
               THEN Put(Put(translated, <<"enableSpeakerDiarization">>, "true"),
                        <<"diarizationSpeakerCount">>,
                        IF Truthy(Prop(translated, <<"diarizationSpeakerCount">>))
                          THEN Prop(translated, <<"diarizationSpeakerCount">>)
                          ELSE "2")
               ELSE translated)
    ELSE Google_translateLoop_keepsPrefix(rest, Put(translated, key, value))

RECURSIVE Google_translateLoop(_, _)
Google_translateLoop(entries, translated) ==
  IF Len(entries) = 0 THEN translated
  ELSE LET key == entries[1][1]
           value == entries[1][2]
           rest == Tail(entries)
       IN
    IF key = <<"language">>
      THEN Google_translateLoop(rest, Put(translated, <<"languageCode">>, value))
    ELSE IF key = <<"timestamps">>
      THEN Google_translateLoop(rest,
             IF Truthy(value) THEN Put(translated, <<"enableWordTimeOffsets">>, "true")
                              ELSE translated)
    ELSE IF key = <<"word_confidence">>
      THEN Google_translateLoop(rest,
             IF Truthy(value) THEN Put(translated, <<"enableWordConfidence">>, "true")
                              ELSE translated)
    ELSE IF key = <<"speaker_labels">>
      THEN Google_translateLoop(rest,
             IF Truthy(value)
               THEN Put(Put(translated, <<"enableSpeakerDiarization">>, "true"),
                        <<"diarizationSpeakerCount">>,
                        IF Truthy(Prop(translated, <<"diarizationSpeakerCount">>))
                          THEN Prop(translated, <<"diarizationSpeakerCount">>)
                          ELSE "2")
               ELSE translated)
    ELSE IF StartsWith(key, GooglePrefix)
      THEN Google_translateLoop(rest,
             Put(translated, Substring(key, Len(GooglePrefix)), value))
    ELSE Google_translateLoop(rest, Put(translated, key, value))

Google_translateParams(model, params) == Google_translateLoop(params, EmptyObject)

\* dispatch on the adapter instance
validateParams(adapter, model, params) ==
  IF adapter = "openai" THEN OpenAI_validateParams(model, params)
  ELSE IF adapter = "deepgram" THEN Deepgram_validateParams(model, params)
  ELSE Google_validateParams(model, params)

translateParams(adapter, model, params) ==
  IF adapter = "openai" THEN OpenAI_translateParams(model, params)
  ELSE IF adapter = "deepgram" THEN Deepgram_translateParams(model, params)
  ELSE Google_translateParams(model, params)

(***************************************************************************)
(* Native response trees.  A tree node is a record; an optional field that *)
(* is absent is absent from the record's DOMAIN.  Times of the OpenAI and  *)
(* Deepgram trees are numbers; Google times are {seconds, nanos} records.  *)
(* adaptResponse returns the normalized result or throws the TypeError of  *)
(* the first property read on null.                                        *)
(***************************************************************************)
\* the value null in a tree: a node of which no property can be read
Null == [null |-> "null"]
IsNull(node) == "null" \in DOMAIN node
AnyNull(list) == \E i \in 1..Len(list) : IsNull(list[i])
Has(node, field) == field \in DOMAIN node
Get(node, field) == IF Has(node, field) THEN node[field] ELSE Undefined
\* x?.toString() of a number: the string that spells it
toString(v) == IF v = Undefined THEN Undefined ELSE "'" \o v \o "'"

\* providers/openai/adapters.ts
\* adaptResponse walking the word and segment lists without testing for them
OpenAI_adaptResponse_unguarded(response) ==
  IF IsNull(response) \/ ~Has(response, "words") THEN Threw(TypeError("forEach"))
  ELSE IF AnyNull(response.words) THEN Threw(TypeError("word"))
  ELSE IF ~Has(response, "segments") THEN Threw(TypeError("forEach"))
  ELSE Returned(
     [text |-> Get(response, "text"),
      language |-> IF Has(response, "language") THEN response.language ELSE "'unknown'",
      confidence |-> Get(response, "confidence"),
      words |-> [i \in 1..Len(response.words) |->
                  [text |-> Get(response.words[i], "word"),
                   start |-> Get(response.words[i], "start"),
                   end |-> Get(response.words[i], "end"),
                   confidence |-> Get(response.words[i], "confidence")]],
      segments |-> [i \in 1..Len(response.segments) |->
                     [text |-> Get(response.segments[i], "text"),
                      start |-> Get(response.segments[i], "start"),
                      end |-> Get(response.segments[i], "end")]]])

OpenAI_adaptResponse(response) ==
  IF IsNull(response) THEN Threw(TypeError("words"))
  ELSE IF Has(response, "words") /\ AnyNull(response.words) THEN Threw(TypeError("word"))
  ELSE IF Has(response, "segments") /\ AnyNull(response.segments)
    THEN Threw(TypeError("text"))
  ELSE
  LET words == IF Has(response, "words")
                 THEN [i \in 1..Len(response.words) |->
                        [text |-> Get(response.words[i], "word"),
                         start |-> Get(response.words[i], "start"),
                         end |-> Get(response.words[i], "end"),
                         confidence |-> Get(response.words[i], "confidence")]]
                 ELSE <<>>
      segments == IF Has(response, "segments")
                    THEN [i \in 1..Len(response.segments) |->
                           [text |-> Get(response.segments[i], "text"),
                            start |-> Get(response.segments[i], "start"),
                            end |-> Get(response.segments[i], "end")]]
                    ELSE <<>>
  IN Returned(
     [text |-> Get(response, "text"),
      language |-> IF Has(response, "language") THEN response.language ELSE "'unknown'",
      confidence |-> Get(response, "confidence"),
      words |-> words,
      segments |-> segments])

\* providers/deepgram/adapters.ts
Deepgram_hasAlternative(response) ==
  /\ Has(response, "results")
  /\ Has(response.results, "channels")
  /\ Len(response.results.channels) >= 1
  /\ Has(response.results.channels[1], "alternatives")
  /\ Len(response.results.channels[1].alternatives) >= 1
  /\ ~IsNull(response.results.channels[1].alternatives[1])

Deepgram_adaptResponse(response) ==
  IF IsNull(response) THEN Threw(TypeError("results"))
  ELSE IF Deepgram_hasAlternative(response)
    THEN IF /\ Has(response.results.channels[1].alternatives[1], "words")
            /\ AnyNull(response.results.channels[1].alternatives[1].words)
           THEN Threw(TypeError("word"))
         ELSE IF Has(response.results, "utterances") /\ AnyNull(response.results.utterances)
           THEN Threw(TypeError("transcript"))
         ELSE
         LET alternative == response.results.channels[1].alternatives[1]
             words == IF Has(alternative, "words")
                        THEN [i \in 1..Len(alternative.words) |->
                               [text |-> Get(alternative.words[i], "word"),
                                start |-> Get(alternative.words[i], "start"),
                                end |-> Get(alternative.words[i], "end"),
                                confidence |-> Get(alternative.words[i], "confidence"),
                                speaker |-> toString(Get(alternative.words[i], "speaker"))]]
                        ELSE <<>>
             segments == IF Has(response.results, "utterances")
                           THEN [i \in 1..Len(response.results.utterances) |->
                                  [text |-> Get(response.results.utterances[i], "transcript"),
                                   start |-> Get(response.results.utterances[i], "start"),
                                   end |-> Get(response.results.utterances[i], "end"),
                                   speaker |-> toString(Get(response.results.utterances[i], "speaker"))]]
                           ELSE <<>>
         IN Returned(
            [text |-> Get(alternative, "transcript"),
             language |-> IF Has(response, "metadata") /\ Has(response.metadata, "language")
                            THEN response.metadata.language ELSE "'unknown'",
             confidence |-> Get(alternative, "confidence"),
             words |-> words,
             segments |-> segments])
    ELSE Returned(
         [text |-> IF Has(response, "transcript") THEN response.transcript ELSE "''",
          language |-> "'unknown'",
          confidence |-> Undefined,
          words |-> <<>>,
          segments |-> <<>>])

\* providers/google/adapters.ts
NanosPerSecond == 1000000000

\* a time read from its seconds alone
Google_time_secondsOnly(node, field) ==
  IF Has(node, field)
    THEN (IF Has(node[field], "seconds") THEN node[field].seconds ELSE 0) * NanosPerSecond
    ELSE 0

\* parseFloat(t?.seconds || '0') + parseFloat(t?.nanos || '0') / 1e9, in nanoseconds
Google_time(node, field) ==
  IF Has(node, field)
    THEN (IF Has(node[field], "seconds") THEN node[field].seconds ELSE 0) * NanosPerSecond
         + (IF Has(node[field], "nanos") THEN node[field].nanos ELSE 0)
    ELSE 0

Google_hasAlternative(result) ==
  /\ Has(result, "alternatives")
  /\ Len(result.alternatives) >= 1
  /\ ~IsNull(result.alternatives[1])

\* the word lists of the results joined last result first
RECURSIVE Google_words_lastFirst(_)
Google_words_lastFirst(results) ==
  IF Len(results) = 0 THEN <<>>
  ELSE Google_words_lastFirst(Tail(results))
       \o (IF Google_hasAlternative(results[1]) /\ Has(results[1].alternatives[1], "words")
             THEN LET ws == results[1].alternatives[1].words
                  IN [i \in 1..Len(ws) |->
                       [text |-> Get(ws[i], "word"),
                        start |-> Google_time(ws[i], "startTime"),
                        end |-> Google_time(ws[i], "endTime"),
                        confidence |-> Get(ws[i], "confidence"),
                        speaker |-> toString(Get(ws[i], "speakerTag"))]]
             ELSE <<>>)

RECURSIVE Google_words(_)
Google_words(results) ==
  IF Len(results) = 0 THEN <<>>
  ELSE (IF Google_hasAlternative(results[1]) /\ Has(results[1].alternatives[1], "words")
          THEN LET ws == results[1].alternatives[1].words
               IN [i \in 1..Len(ws) |->
                    [text |-> Get(ws[i], "word"),
                     start |-> Google_time(ws[i], "startTime"),
                     end |-> Google_time(ws[i], "endTime"),
                     confidence |-> Get(ws[i], "confidence"),
                     speaker |-> toString(Get(ws[i], "speakerTag"))]]
          ELSE <<>>)
       \o Google_words(Tail(results))

RECURSIVE Google_segments(_)
Google_segments(results) ==
  IF Len(results) = 0 THEN <<>>
  ELSE (IF Google_hasAlternative(results[1])
          THEN << [text |-> Get(results[1].alternatives[1], "transcript"),
                   start |-> Google_time(results[1], "resultEndTime"),
                   end |-> Google_time(results[1], "resultEndTime")] >>
          ELSE <<>>)
       \o Google_segments(Tail(results))

\* fullTranscript += alternative.transcript + ' ', then trim() drops the last blank
RECURSIVE Google_transcript(_)
Google_transcript(results) ==
  IF Len(results) = 0 THEN <<>>
  ELSE (IF Google_hasAlternative(results[1])
          THEN << Get(results[1].alternatives[1], "transcript"), " " >>
          ELSE <<>>)
       \o Google_transcript(Tail(results))

Trim(s) == IF Len(s) > 0 /\ s[Len(s)] = " " THEN SubSeq(s, 1, Len(s) - 1) ELSE s

Google_adaptResponse(response) ==
  IF IsNull(response) THEN Threw(TypeError("results"))
  ELSE IF Has(response, "results") /\ AnyNull(response.results)
    THEN Threw(TypeError("alternatives"))
  ELSE IF /\ Has(response, "results")
          /\ \E i \in 1..Len(response.results) :
               /\ Google_hasAlternative(response.results[i])
               /\ Has(response.results[i].alternatives[1], "words")
               /\ AnyNull(response.results[i].alternatives[1].words)
    THEN Threw(TypeError("word"))
  ELSE
  LET results == IF Has(response, "results") THEN response.results ELSE <<>>
  IN Returned(
     [text |-> Trim(Google_transcript(results)),
      language |-> IF Len(results) >= 1 /\ Has(results[1], "languageCode")
                     THEN results[1].languageCode ELSE "'unknown'",
      confidence |-> IF Len(results) >= 1 /\ Google_hasAlternative(results[1])
                       THEN Get(results[1].alternatives[1], "confidence")
                       ELSE Undefined,
      words |-> Google_words(results),
      segments |-> Google_segments(results)])

\* the adaptResponse of an adapter's module
adaptResponse(adapter, response) ==
  IF adapter = "openai" THEN OpenAI_adaptResponse(response)
  ELSE IF adapter = "deepgram" THEN Deepgram_adaptResponse(response)
  ELSE Google_adaptResponse(response)

\* the canned response of GoogleCloudASRProvider.transcribe
mockResponse ==
  [results |-> <<
    [alternatives |-> <<
      [transcript |-> "Mock transcription from Google Cloud Speech-to-Text",
       confidence |-> "0.95",
       words |-> <<
         [word |-> "Mock",
          startTime |-> [seconds |-> 0, nanos |-> 0],
          endTime |-> [seconds |-> 1, nanos |-> 0],
          confidence |-> "0.95"],
         [word |-> "transcription",
          startTime |-> [seconds |-> 1, nanos |-> 0],
          endTime |-> [seconds |-> 2, nanos |-> 0],
          confidence |-> "0.95"] >>] >>] >>]

(***************************************************************************)
(* transcribe: the synchronous part of each adapter, up to the remote call *)
(***************************************************************************)
Resolved(v) == [status |-> "resolved", value |-> v]
Rejected(e) == [status |-> "rejected", error |-> e]
\* the adapter is suspended on its remote call
Pending(remote) == [status |-> "pending", remote |-> remote]

\* Object.entries(request): model and file first, then the options as written
Entries(request) ==
  << << <<"model">>, request.model >>, << <<"file">>, request.file >> >> \o request.params

\* typeof file === 'string': a filesystem path
IsPath(file) == file \in {"path", "missing-path"}

\* error instanceof Error ? error.message : 'Unknown error'
MessageOf(thrown) ==
  IF thrown.class = "non-Error" THEN <<"Unknown error">> ELSE thrown.message

\* a catch block wrapping whatever it catches
Wrap_always(label, name, thrown) ==
  ASRError(<<label>> \o MessageOf(thrown), name, "API_ERROR")

\* the catch block shared by the three adapters
Wrap(label, name, thrown) ==
  IF IsASRError(thrown)
    THEN thrown
    ELSE ASRError(<<label>> \o MessageOf(thrown), name, "API_ERROR")

\* fs.readFileSync(path)
readFileSync(file) ==
  IF file = "path"
    THEN Returned("Buffer")
    ELSE Threw(PlainError(<<"ENOENT: no such file or directory">>))

\* the audio normalisation of the Deepgram and Google adapters
audioData(file, name) ==
  IF IsPath(file) THEN readFileSync(file)
  ELSE IF file = "Buffer" THEN Returned("Buffer")
  ELSE IF file = "Uint8Array" THEN Returned("Buffer")
  ELSE Threw(ASRError(<<"Unsupported audio input type">>, name, "INVALID_INPUT"))

\* the catch block around the body of transcribe
Catch(label, name, attempt) ==
  IF attempt.status = "threw"
    THEN Rejected(Wrap(label, name, attempt.error))
    ELSE attempt

\* a try block that goes on to the remote call whatever validation said
OpenAI_try_unvalidated(request, options) ==
  LET translatedParams == OpenAI_translateParams(request.model, Entries(request))
      audioFile == IF IsPath(request.file) THEN "ReadStream"
                   ELSE IF request.file \in {"Buffer", "Uint8Array"} THEN "File"
                   ELSE request.file
      openaiRequest == Spread(<< << <<"file">>, audioFile >>,
                                 << <<"model">>, request.model >> >>,
                              translatedParams)
  IN Pending([adapter |-> "openai", request |-> openaiRequest, signal |-> Undefined])

\* the try block of transcribe up to its first await
OpenAI_try(request, options) ==
  LET validated == OpenAI_validateParams(request.model, Entries(request))
      translatedParams == OpenAI_translateParams(request.model, Entries(request))
      audioFile == IF IsPath(request.file) THEN "ReadStream"
                   ELSE IF request.file \in {"Buffer", "Uint8Array"} THEN "File"
                   ELSE request.file
      openaiRequest == Spread(<< << <<"file">>, audioFile >>,
                                 << <<"model">>, request.model >> >>,
                              translatedParams)
  IN IF validated.status = "threw"
       THEN Threw(validated.error)
       ELSE Pending([adapter |-> "openai", request |-> openaiRequest,
                     signal |-> Undefined])

OpenAI_transcribe(request, options) ==
  Catch("OpenAI ASR error: ", <<"openai">>, OpenAI_try(request, options))

\* value !== undefined && value !== null; the model name and the audio payload
\* are never undefined or null, an option value is a literal
NotNullish(entry) ==
  \/ entry[1] \in {<<"model">>, <<"file">>}
  \/ entry[2] \notin {"undefined", "null"}

\* value.toString(): a string is itself, a literal is spelled out, a byte
\* buffer is decoded
QueryValue(entry) ==
  IF entry[1] = <<"model">> THEN entry[2]
  ELSE IF entry[1] = <<"file">>
    THEN (IF IsPath(entry[2]) THEN entry[2] ELSE "decoded " \o entry[2])
  ELSE "'" \o entry[2] \o "'"

\* queryParams.append for every translated entry that is not undefined or null
RECURSIVE Deepgram_query(_, _)
Deepgram_query(queryParams, translated) ==
  IF Len(translated) = 0 THEN queryParams
  ELSE Deepgram_query(
         IF NotNullish(translated[1])
           THEN Append(queryParams, <<translated[1][1], QueryValue(translated[1])>>)
           ELSE queryParams,
         Tail(translated))

Deepgram_try(request, options) ==
  LET validated == Deepgram_validateParams(request.model, Entries(request))
      translatedParams == Deepgram_translateParams(request.model, Entries(request))
      queryParams == Deepgram_query(<< << <<"model">>, request.model >> >>,
                                    translatedParams)
      audio == audioData(request.file, <<"deepgram">>)
  IN IF validated.status = "threw" THEN Threw(validated.error)
     ELSE IF audio.status = "threw" THEN Threw(audio.error)
     ELSE Pending([adapter |-> "deepgram", request |-> queryParams,
                   signal |-> IF Truthy(Prop(options, <<"timeout">>))
                                THEN Prop(options, <<"timeout">>)
                                ELSE Undefined])

Deepgram_transcribe(request, options) ==
  Catch("Deepgram ASR error: ", <<"deepgram">>, Deepgram_try(request, options))

\* a transcribe that sends the request body instead of using the canned response
Google_try_fetches(request, options) ==
  LET validated == Google_validateParams(request.model, Entries(request))
      translatedParams == Google_translateParams(request.model, Entries(request))
      audio == audioData(request.file, <<"google">>)
  IN IF validated.status = "threw" THEN Threw(validated.error)
     ELSE IF audio.status = "threw" THEN Threw(audio.error)
     ELSE Pending([adapter |-> "google", request |-> translatedParams,
                   signal |-> IF Truthy(Prop(options, <<"timeout">>))
                                THEN Prop(options, <<"timeout">>)
                                ELSE Undefined])

Google_try(request, options) ==
  LET validated == Google_validateParams(request.model, Entries(request))
      translatedParams == Google_translateParams(request.model, Entries(request))
      audio == audioData(request.file, <<"google">>)
      adapted == Google_adaptResponse(mockResponse)
  IN IF validated.status = "threw" THEN Threw(validated.error)
     ELSE IF audio.status = "threw" THEN Threw(audio.error)
     ELSE IF adapted.status = "threw" THEN Threw(adapted.error)
     ELSE Resolved(adapted.value)

Google_transcribe(request, options) ==
  Catch("Google Cloud ASR error: ", <<"google">>, Google_try(request, options))

transcribe(adapter, request, options) ==
  IF adapter = "openai" THEN OpenAI_transcribe(request, options)
  ELSE IF adapter = "deepgram" THEN Deepgram_transcribe(request, options)
  ELSE Google_transcribe(request, options)

\* what reached the catch block of that invocation before its first await
caughtIn(adapter, request, options) ==
  LET attempt == IF adapter = "openai" THEN OpenAI_try(request, options)
                 ELSE IF adapter = "deepgram" THEN Deepgram_try(request, options)
                 ELSE Google_try(request, options)
  IN IF attempt.status = "threw" THEN <<attempt.error>> ELSE <<>>

\* the statements of the try block that run before its first await, in the
\* order they run: validation, translation, the audio normalisation, then the
\* remote call (the Google adapter normalises its canned response instead)
stepsIn(adapter, request, options) ==
  LET validated == validateParams(adapter, request.model, Entries(request))
      audio == IF adapter = "openai"
                 THEN Returned("audioFile")
                 ELSE audioData(request.file, <<adapter>>)
  IN IF validated.status = "threw" THEN <<"validateParams">>
     ELSE IF audio.status = "threw"
       THEN <<"validateParams", "translateParams", "audio">>
     ELSE IF adapter = "google"
       THEN <<"validateParams", "translateParams", "audio", "adaptResponse">>
     ELSE <<"validateParams", "translateParams", "audio", "remote">>

(***************************************************************************)
(* client.ts: audio.transcriptions.create                                  *)
(***************************************************************************)
\* return providerInstance.transcribe(...): the promise of the adapter is handed on
createReturn(adapterOutcome) == adapterOutcome

\* create listing every provider the library knows instead of the registered ones
create_listsKnown(registry, request, options) ==
  LET parsed == parseModel(request.model) IN
  IF parsed.status = "threw"
    THEN [after |-> request, calls |-> <<>>, outcome |-> Rejected(parsed.error)]
  ELSE LET provider == parsed.value.provider
           model == parsed.value.model
           providerInstance == MapGet(registry, provider)
       IN IF ~Truthy(providerInstance)
            THEN [after |-> request, calls |-> <<>>,
                  outcome |-> Rejected(ProviderNotConfiguredError(provider,
                                << <<"openai">>, <<"deepgram">>, <<"google">> >>))]
            ELSE LET requestWithParsedModel ==
                       [model |-> model, file |-> request.file, params |-> request.params]
                     adapterOutcome == transcribe(providerInstance, requestWithParsedModel, options)
                 IN [after |-> request,
                     calls |-> << [adapter |-> providerInstance,
                                   request |-> requestWithParsedModel,
                                   options |-> options,
                                   outcome |-> adapterOutcome,
                                   caught |-> caughtIn(providerInstance,
                                                requestWithParsedModel, options),
                                   steps |-> stepsIn(providerInstance,
                                               requestWithParsedModel, options)] >>,
                     outcome |-> createReturn(adapterOutcome)]

\* create rewriting request.model in place instead of copying the request
create_inPlace(registry, request, options) ==
  LET parsed == parseModel(request.model) IN
  IF parsed.status = "threw"
    THEN [after |-> request, calls |-> <<>>, outcome |-> Rejected(parsed.error)]
  ELSE LET provider == parsed.value.provider
           model == parsed.value.model
           providerInstance == MapGet(registry, provider)
       IN IF ~Truthy(providerInstance)
            THEN [after |-> request, calls |-> <<>>,
                  outcome |-> Rejected(ProviderNotConfiguredError(provider, MapKeys(registry)))]
            ELSE LET requestWithParsedModel ==
                       [model |-> model, file |-> request.file, params |-> request.params]
                     adapterOutcome == transcribe(providerInstance, requestWithParsedModel, options)
                 IN [after |-> requestWithParsedModel,
                     calls |-> << [adapter |-> providerInstance,
                                   request |-> requestWithParsedModel,
                                   options |-> options,
                                   outcome |-> adapterOutcome,
                                   caught |-> caughtIn(providerInstance,
                                                requestWithParsedModel, options),
                                   steps |-> stepsIn(providerInstance,
                                               requestWithParsedModel, options)] >>,
                     outcome |-> createReturn(adapterOutcome)]

\* what one invocation does before it first suspends: the caller's request
\* object afterwards, the adapter invocations made, and the state of the promise
create(registry, request, options) ==
  LET parsed == parseModel(request.model) IN
  IF parsed.status = "threw"
    THEN [after |-> request, calls |-> <<>>, outcome |-> Rejected(parsed.error)]
  ELSE LET provider == parsed.value.provider
           model == parsed.value.model
           providerInstance == MapGet(registry, provider)
       IN IF ~Truthy(providerInstance)
            THEN [after |-> request, calls |-> <<>>,
                  outcome |-> Rejected(ProviderNotConfiguredError(provider, MapKeys(registry)))]
            ELSE LET requestWithParsedModel ==
                       [model |-> model, file |-> request.file, params |-> request.params]
                     adapterOutcome == transcribe(providerInstance, requestWithParsedModel, options)
                 IN [after |-> request,
                     calls |-> << [adapter |-> providerInstance,
                                   request |-> requestWithParsedModel,
                                   options |-> options,
                                   outcome |-> adapterOutcome,
                                   caught |-> caughtIn(providerInstance,
                                                requestWithParsedModel, options),
                                   steps |-> stepsIn(providerInstance,
                                               requestWithParsedModel, options)] >>,
                     outcome |-> createReturn(adapterOutcome)]

(***************************************************************************)
(* Inputs                                                                  *)
(***************************************************************************)
IdTokens == {":", "openai", "deepgram", "google", "m"}

SeqsUpTo(S, n) == UNION {[1..k -> S] : k \in 0..n}

Identifiers == SeqsUpTo(IdTokens, MaxIdLen)

Configs ==
  [openai : {Undefined, "{apiKey}"},
   deepgram : {Undefined, "{apiKey}"},
   google : {Undefined, "{projectId}"}]

Files == {"path", "missing-path", "Buffer", "Uint8Array", "other"}

Options ==
  { <<>>, << << <<"timeout">>, "1000" >> >>, << << <<"retries">>, "3" >> >> }

Values == {"true", "false", "'verbose_json'"}

Keys ==
  { <<"language">>, <<"timestamps">>, <<"word_confidence">>, <<"speaker_labels">>,
    <<"temperature">>,
    <<"response_format">>, <<"utterances">>, <<"enableWordTimeOffsets">>,
    <<"openai_", "response_format">>, <<"deepgram_", "utterances">>,
    <<"google_", "enableWordTimeOffsets">>,
    <<"openai_", "speaker_labels">>, <<"deepgram_", "temperature">>,
    <<"custom">> }

Objects(keys, values, n) ==
  {obj \in SeqsUpTo(keys \X values, n) : IsObject(obj)}

Params == Objects(Keys, Values, MaxParams)

\* the three universal feature switches, each absent, true or false, in any order
UniversalFlags == { <<"timestamps">>, <<"word_confidence">>, <<"speaker_labels">> }
FlagParams == Objects(UniversalFlags, {"true", "false"}, Cardinality(UniversalFlags))

\* speaker labelling with and without a speaker count given by the caller
DiarizationEntries ==
  { << <<"speaker_labels">>, "true" >>, << <<"speaker_labels">>, "false" >>,
    << <<"google_", "diarization_speaker_count">>, "4" >>,
    << <<"google_", "diarizationSpeakerCount">>, "4" >>,
    << <<"diarizationSpeakerCount">>, "4" >> }
DiarizationParams == {obj \in SeqsUpTo(DiarizationEntries, 2) : IsObject(obj)}

\* the options a request to the client carries
RequestParams ==
  { <<>>,
    << << <<"timestamps">>, "true" >> >>,
    << << <<"speaker_labels">>, "true" >> >>,
    << << <<"speaker_labels">>, "false" >> >>,
    << << <<"temperature">>, "true" >> >>,
    << << <<"openai_", "speaker_labels">>, "true" >> >>,
    << << <<"timestamps">>, "true" >>, << <<"language">>, "'en-US'" >> >> }

MaxRequestIdLen == 3
\* the identifiers of requests: names and separators, a name never directly
\* after a name (two names in a row spell one longer name)
RequestIds ==
  {id \in SeqsUpTo(IdTokens, MaxRequestIdLen) :
     \A i \in 1..(Len(id) - 1) : id[i] = ":" \/ id[i + 1] = ":"}
Requests ==
  [model : RequestIds, file : Files, params : RequestParams]

Adapters == {"openai", "deepgram", "google"}

QueriedKeys == { <<"openai">>, <<"deepgram">>, <<"google">>, <<"aws">> }

\* what the remote call of the OpenAI adapter can resolve with
OpenAIResponses ==
  { Null,
    [text |-> "'hello'"],
    [text |-> "'hello world'", language |-> "'en'",
     words |-> << [word |-> "'hello'", start |-> 0, end |-> 5],
                  [word |-> "'world'", start |-> 5, end |-> 9] >>,
     segments |-> << [text |-> "'hello world'", start |-> 0, end |-> 9] >>] }

\* what the body of a 2xx Deepgram response can parse to
DeepgramResponses ==
  { Null,
    [metadata |-> [request_id |-> "'r'"]],
    [results |-> [channels |-> << [alternatives |-> <<
       [transcript |-> "'hello'", words |-> << Null >>] >>] >>]],
    [results |-> [channels |-> << [alternatives |-> <<
       [transcript |-> "'hello'", confidence |-> "0.9",
        words |-> << [word |-> "'hello'", start |-> 0, end |-> 5,
                      confidence |-> "0.9", speaker |-> "0"] >>] >>] >>,
                  utterances |-> << [transcript |-> "'hello'", start |-> 0, end |-> 5,
                                     speaker |-> "0"] >>]] }

\* what the remote call can throw
Thrown ==
  { PlainError(<<"fetch failed">>),
    PlainError(<<"Unexpected token < in JSON at position 0">>),
    [class |-> "non-Error", message |-> <<"socket hang up">>, provider |-> <<>>,
     code |-> Undefined] }

(***************************************************************************)
(* Native response trees of the three backends, optional fields present or *)
(* absent                                                                  *)
(***************************************************************************)
\* the given records, without the field and with each { name: v }, v in S
Optional(records, name, S) ==
  records \cup { r @@ [f \in {name} |-> v] : r \in records, v \in S }

WordTexts == {"'a'", "'b'"}

\* word entries of OpenAI and Deepgram: times in seconds, start not after end
TimedWords ==
  { [word |-> w, start |-> a, end |-> b] :
      w \in WordTexts, a \in 0..MaxTime, b \in 0..MaxTime }
OpenAIWords ==
  {e \in TimedWords : e.start <= e.end}
  \cup { [word |-> "'a'", start |-> 0, end |-> 0, confidence |-> "0.9"] }
DeepgramWords ==
  {e \in TimedWords : e.start <= e.end}
  \cup { [word |-> "'a'", start |-> 0, end |-> 0, confidence |-> "0.9", speaker |-> "0"] }

OpenAITrees ==
  Optional(
    Optional(
      Optional({ [text |-> "'hello'"] }, "words", SeqsUpTo(OpenAIWords, MaxWords)),
      "segments", { <<>>, << [text |-> "'hello'", start |-> 0, end |-> 1] >> }),
    "language", {"'en'"})

\* a further alternative of a channel, and a further channel
DeepgramMore ==
  { <<>>,
    << [transcript |-> "'hallo'",
        words |-> << [word |-> "'c'", start |-> 0, end |-> 1] >>] >> }
DeepgramMoreChannels ==
  { <<>>,
    << [alternatives |-> << [transcript |-> "'left'",
          words |-> << [word |-> "'d'", start |-> 0, end |-> 1] >>] >>] >> }
DeepgramAlternatives ==
  Optional(
    Optional({ [transcript |-> "'hello'"] }, "words", SeqsUpTo(DeepgramWords, MaxWords)),
    "confidence", {"0.9"})
DeepgramTrees ==
  { [metadata |-> [request_id |-> "'r'"]],
    [results |-> [channels |-> <<>>]] }
  \cup
  { [results |-> r] :
      r \in Optional({ [channels |-> << [alternatives |-> <<a>>] >>] :
                         a \in DeepgramAlternatives },
                     "utterances",
                     { <<>>, << [transcript |-> "'hello'", start |-> 0, end |-> 1] >> }) }
  \cup
  { [results |-> [channels |-> << [alternatives |-> <<a>> \o more] >> \o channels]] :
      a \in Optional({ [transcript |-> "'hello'"] }, "words",
                     { << [word |-> "'a'", start |-> 0, end |-> 1] >> }),
      more \in DeepgramMore, channels \in DeepgramMoreChannels }

\* Google times: whole seconds, and half a second with the seconds left out
GoogleTimes ==
  { [seconds |-> sec] : sec \in 0..MaxTime } \cup { [nanos |-> NanosPerSecond \div 2] }
\* word entries: without times, with times, and one ending at a second and a half
GoogleWords ==
  { [word |-> "'a'"] }
  \cup { e \in [word : {"'a'"}, startTime : GoogleTimes, endTime : GoogleTimes] :
           Google_time(e, "startTime") <= Google_time(e, "endTime") }
  \cup { [word |-> "'a'", startTime |-> [nanos |-> NanosPerSecond \div 2],
          endTime |-> [seconds |-> 1, nanos |-> NanosPerSecond \div 2]] }
\* a further alternative of a result, and a further result
GoogleMore ==
  { <<>>,
    << [transcript |-> "'hallo'",
        words |-> << [word |-> "'c'", startTime |-> [seconds |-> 0],
                      endTime |-> [seconds |-> 1]] >>] >> }
GoogleMoreResults ==
  { <<>>,
    << [alternatives |-> << [transcript |-> "'again'",
          words |-> << [word |-> "'d'", startTime |-> [seconds |-> 1],
                        endTime |-> [seconds |-> 1]] >>] >>] >>,
    << [alternatives |-> <<>>] >> }
GoogleAlternatives ==
  Optional(
    Optional({ [transcript |-> "'hello'"] }, "words", SeqsUpTo(GoogleWords, MaxWords)),
    "confidence", {"0.9"})
GoogleTrees ==
  { [totalBilledTime |-> "'0s'"] }
  \cup
  { [results |-> <<r>>] :
      r \in Optional({ [alternatives |-> <<a>>] : a \in GoogleAlternatives },
                     "resultEndTime", { [seconds |-> 1] }) }
  \cup
  { [results |-> << [alternatives |-> <<a>> \o more] >> \o results] :
      a \in Optional({ [transcript |-> "'hello'"] }, "words",
                     { << [word |-> "'a'", startTime |-> [seconds |-> 0],
                           endTime |-> [seconds |-> 1]] >> }),
      more \in GoogleMore, results \in GoogleMoreResults }

\* trees with a null where an object is read
UnreadableTrees(adapter) ==
  IF adapter = "openai"
    THEN { Null, [text |-> "'hello'", words |-> << Null >>] }
  ELSE IF adapter = "deepgram"
    THEN { Null,
           [results |-> [channels |-> << [alternatives |-> <<
              [transcript |-> "'hello'", words |-> << Null >>] >>] >>]] }
  ELSE { Null, [results |-> << Null >>] }

Trees(adapter) ==
  IF adapter = "openai" THEN OpenAITrees
  ELSE IF adapter = "deepgram" THEN DeepgramTrees
  ELSE GoogleTrees

(***************************************************************************)
(* The client: state after construction, and its operations                *)
(***************************************************************************)
Init ==
  /\ config \in Configs
  /\ providers = initializeProviders(config)
  /\ call = [op |-> "constructor"]
  /\ outcome = Returned("ASRClient")
  /\ transcribeCalls = <<>>

\* one create invocation is followed at a time: the caller issues the next one
\* after the construction or after a listProviders / isProviderConfigured call
Create(request, options) ==
  LET done == create(providers, request, options) IN
  /\ call' = [op |-> "create", request |-> request, after |-> done.after,
              options |-> options]
  /\ outcome' = done.outcome
  /\ transcribeCalls' = done.calls
  /\ UNCHANGED <<config, providers>>

ListProviders ==
  /\ call' = [op |-> "listProviders"]
  /\ outcome' = Returned(listProviders(providers))
  /\ transcribeCalls' = <<>>
  /\ UNCHANGED <<config, providers>>

IsProviderConfigured(provider) ==
  /\ call' = [op |-> "isProviderConfigured", provider |-> provider]
  /\ outcome' = Returned(isProviderConfigured(providers, provider))
  /\ transcribeCalls' = <<>>
  /\ UNCHANGED <<config, providers>>

Label(adapter) ==
  IF adapter = "openai" THEN "OpenAI ASR error: "
  ELSE IF adapter = "deepgram" THEN "Deepgram ASR error: "
  ELSE "Google Cloud ASR error: "

\* a client that drops an adapter from its registry once a call to it failed
Settle_unregisters(adapterOutcome, caught, ran) ==
  /\ transcribeCalls' = [transcribeCalls EXCEPT ![1].outcome = adapterOutcome,
                                               ![1].caught = caught,
                                               ![1].steps = @ \o ran]
  /\ outcome' = createReturn(adapterOutcome)
  /\ providers' = IF adapterOutcome.status = "rejected"
                    THEN SelectSeq(providers,
                                   LAMBDA entry : entry[2] # transcribeCalls[1].adapter)
                    ELSE providers
  /\ UNCHANGED <<config, call>>

\* the adapter's promise settles and the promise of create follows it
Settle(adapterOutcome, caught, ran) ==
  /\ transcribeCalls' = [transcribeCalls EXCEPT ![1].outcome = adapterOutcome,
                                               ![1].caught = caught,
                                               ![1].steps = @ \o ran]
  /\ outcome' = createReturn(adapterOutcome)
  /\ UNCHANGED <<config, providers, call>>

\* a transcribe that issues its remote call once more after a failure
Resume_again(attempt, ran) ==
  IF attempt.status = "threw"
       /\ Cardinality({i \in 1..Len(transcribeCalls[1].steps) :
                         transcribeCalls[1].steps[i] = "remote"}) < 2
    THEN /\ transcribeCalls' = [transcribeCalls EXCEPT ![1].steps = @ \o <<"remote">>]
         /\ UNCHANGED <<config, providers, call, outcome>>
    ELSE Settle(Catch(Label(transcribeCalls[1].adapter), <<transcribeCalls[1].adapter>>,
                      attempt),
                IF attempt.status = "threw" THEN <<attempt.error>> ELSE <<>>,
                ran)

\* the body of transcribe resumes after its await and runs to its end, through
\* the catch block when it throws
Resume(attempt, ran) ==
  Settle(Catch(Label(transcribeCalls[1].adapter), <<transcribeCalls[1].adapter>>, attempt),
         IF attempt.status = "threw" THEN <<attempt.error>> ELSE <<>>,
         ran)

Suspended ==
  /\ Len(transcribeCalls) = 1
  /\ transcribeCalls[1].outcome.status = "pending"

\* the remote call (SDK call, fetch, or response.json()) throws
RemoteThrows(thrown) ==
  /\ Suspended
  /\ Resume(Threw(thrown), <<>>)

\* AbortSignal.timeout fires and fetch rejects
RemoteTimesOut ==
  /\ Suspended
  /\ transcribeCalls[1].outcome.remote.signal # Undefined
  /\ Resume(Threw(PlainError(<<"The operation was aborted due to timeout">>)), <<>>)

\* fetch resolves with a response that is not ok
RemoteRefuses(status) ==
  /\ Suspended
  /\ transcribeCalls[1].adapter = "deepgram"
  /\ Resume(Threw(ASRError(<<"Deepgram API error: ", status>>,
                           <<"deepgram">>, "API_ERROR")), <<>>)

\* return adaptResponse(response)
Adapted(adapted) ==
  IF adapted.status = "threw" THEN adapted ELSE Resolved(adapted.value)

\* the remote call delivers a native response tree
RemoteResponds ==
  /\ Suspended
  /\ \/ /\ transcribeCalls[1].adapter = "openai"
        /\ \E response \in OpenAIResponses :
             Resume(Adapted(OpenAI_adaptResponse(response)), <<"adaptResponse">>)
     \/ /\ transcribeCalls[1].adapter = "deepgram"
        /\ \E response \in DeepgramResponses :
             Resume(Adapted(Deepgram_adaptResponse(response)), <<"adaptResponse">>)

Next ==
  \/ /\ call.op # "create"
     /\ \E request \in Requests, options \in Options : Create(request, options)
  \/ ListProviders
  \/ \E provider \in QueriedKeys : IsProviderConfigured(provider)
  \/ \E thrown \in Thrown : RemoteThrows(thrown)
  \/ RemoteTimesOut
  \/ \E status \in {"500 Internal Server Error"} : RemoteRefuses(status)
  \/ RemoteResponds

Spec == Init /\ [][Next]_vars

(***************************************************************************)
(* The client against a remote end that never answers: the only event     *)
(* after a call is the timer of AbortSignal.timeout, which the event loop *)
(* runs once it is armed.                                                  *)
(***************************************************************************)
NextUnanswered ==
  \/ /\ call.op # "create"
     /\ \E request \in Requests, options \in Options : Create(request, options)
  \/ RemoteTimesOut

SpecUnanswered == Init /\ [][NextUnanswered]_vars /\ WF_vars(RemoteTimesOut)

(***************************************************************************)
(* The exported functions and a standalone adapter, called directly        *)
(***************************************************************************)
\* the calls of parseModel, and of the two functions of the given adapters
FunctionCalls(adapters) ==
  {[op |-> "parseModel", model |-> model] : model \in Identifiers}
  \cup {[op |-> op, adapter |-> adapter, params |-> params] :
          op \in {"validateParams", "translateParams"},
          adapter \in adapters, params \in Params \cup FlagParams \cup DiarizationParams}

\* the call to be made is drawn here; no client is constructed
InitFunctions ==
  /\ config = [openai |-> Undefined, deepgram |-> Undefined, google |-> Undefined]
  /\ providers = <<>>
  /\ call \in FunctionCalls(Adapters)
  /\ outcome = [status |-> "none"]
  /\ transcribeCalls = <<>>

ParseModel ==
  /\ call.op = "parseModel"
  /\ outcome' = parseModel(call.model)
  /\ UNCHANGED <<config, providers, call, transcribeCalls>>

ValidateParams ==
  /\ call.op = "validateParams"
  /\ outcome' = validateParams(call.adapter, <<"m">>, call.params)
  /\ UNCHANGED <<config, providers, call, transcribeCalls>>

TranslateParams ==
  /\ call.op = "translateParams"
  /\ outcome' = Returned(translateParams(call.adapter, <<"m">>, call.params))
  /\ UNCHANGED <<config, providers, call, transcribeCalls>>

NextFunctions == ParseModel \/ ValidateParams \/ TranslateParams

SpecFunctions == InitFunctions /\ [][NextFunctions]_vars

(***************************************************************************)
(* Response normalization, called directly on a native tree                *)
(***************************************************************************)
\* the calls of adaptResponse of the given adapters
ResponseCalls(adapters) ==
  UNION {{[op |-> "adaptResponse", adapter |-> adapter, response |-> response] :
            response \in Trees(adapter) \cup UnreadableTrees(adapter)} :
         adapter \in adapters}

InitResponses ==
  /\ config = [openai |-> Undefined, deepgram |-> Undefined, google |-> Undefined]
  /\ providers = <<>>
  /\ call \in ResponseCalls(Adapters)
  /\ outcome = [status |-> "none"]
  /\ transcribeCalls = <<>>

AdaptResponse ==
  /\ call.op = "adaptResponse"
  /\ outcome.status = "none"
  /\ outcome' = adaptResponse(call.adapter, call.response)
  /\ UNCHANGED <<config, providers, call, transcribeCalls>>

NextResponses == AdaptResponse

SpecResponses == InitResponses /\ [][NextResponses]_vars

(***************************************************************************)
(* Several create invocations in flight on one client, as under            *)
(* Promise.allSettled: each runs up to its await when it is issued, and    *)
(* resumes when its own remote call is answered, in any order.  The caller *)
(* holds two request objects and may pass either to any invocation.        *)
(***************************************************************************)
ConcurrentRequests ==
  [model : { <<"openai", ":", "m">>, <<"deepgram", ":", "m">>,
             <<"google", ":", "m">>, <<"m">> },
   file : {"Buffer"},
   params : { <<>>, << << <<"speaker_labels">>, "true" >> >> }]

ConcurrentConfigs ==
  { [openai |-> "{apiKey}", deepgram |-> "{apiKey}", google |-> "{projectId}"],
    [openai |-> Undefined, deepgram |-> "{apiKey}", google |-> Undefined] }

\* what the remote call of an adapter can resolve with here
ConcurrentResponses(adapter) ==
  IF adapter = "openai" THEN { [text |-> "'hello'"] }
  ELSE { [results |-> [channels |-> << [alternatives |-> <<
           [transcript |-> "'hello'", confidence |-> "0.9"] >>] >>]] }

InitConcurrent ==
  /\ config \in ConcurrentConfigs
  /\ providers = initializeProviders(config)
  /\ \E first \in ConcurrentRequests, second \in ConcurrentRequests :
       call = [op |-> "create", passed |-> <<first, second>>,
               requests |-> <<first, second>>, issued |-> <<>>]
  /\ outcome = <<>>
  /\ transcribeCalls = <<>>

\* create is called with the caller's k-th request object and runs up to its
\* first await
IssueCreate(k, options) ==
  /\ Len(outcome) < MaxCalls
  /\ LET done == create(providers, call.requests[k], options) IN
     /\ call' = [call EXCEPT !.requests[k] = done.after,
                             !.issued = Append(@, [object |-> k, options |-> options,
                                                   answer |-> <<>>])]
     /\ outcome' = Append(outcome, done.outcome)
     /\ transcribeCalls' = Append(transcribeCalls, done.calls)
  /\ UNCHANGED <<config, providers>>

\* the i-th invocation resumes after its await with what its remote call gave
ResumeCall(i, attempt, ran) ==
  LET adapter == transcribeCalls[i][1].adapter
      settled == Catch(Label(adapter), <<adapter>>, attempt)
  IN /\ transcribeCalls' =
          [transcribeCalls EXCEPT
             ![i] = << [@[1] EXCEPT !.outcome = settled,
                                    !.caught = IF attempt.status = "threw"
                                                 THEN <<attempt.error>> ELSE <<>>,
                                    !.steps = @ \o ran] >>]
     /\ outcome' = [outcome EXCEPT ![i] = createReturn(settled)]
     /\ call' = [call EXCEPT !.issued[i].answer = <<attempt>>]
     /\ UNCHANGED <<config, providers>>

RemoteThrowsTo(i, thrown) ==
  /\ outcome[i].status = "pending"
  /\ ResumeCall(i, Threw(thrown), <<>>)

RemoteRespondsTo(i) ==
  /\ outcome[i].status = "pending"
  /\ \E response \in ConcurrentResponses(transcribeCalls[i][1].adapter) :
       ResumeCall(i, Adapted(adaptResponse(transcribeCalls[i][1].adapter, response)),
                  <<"adaptResponse">>)

NextConcurrent ==
  \/ \E k \in {1, 2}, options \in Options : IssueCreate(k, options)
  \/ \E i \in 1..Len(outcome) :
       \E thrown \in {PlainError(<<"fetch failed">>)} : RemoteThrowsTo(i, thrown)
  \/ \E i \in 1..Len(outcome) : RemoteRespondsTo(i)

SpecConcurrent == InitConcurrent /\ [][NextConcurrent]_vars

(***************************************************************************)
(* Vocabulary of the properties                                            *)
(***************************************************************************)
ColonCount(id) == Cardinality({i \in 1..Len(id) : id[i] = ":"})
\* exactly one separator, between two non-empty segments
WellFormed(id) == ColonCount(id) = 1 /\ id[1] # ":" /\ id[Len(id)] # ":"
ColonAt(id) == CHOOSE i \in 1..Len(id) : id[i] = ":"
ProviderPart(id) == SubSeq(id, 1, ColonAt(id) - 1)
ModelPart(id) == SubSeq(id, ColonAt(id) + 1, Len(id))

\* the keys present in the configuration, in the order openai, deepgram, google
ExpectedKeys(cfg) ==
  SelectSeq(<< <<"openai">>, <<"deepgram">>, <<"google">> >>,
            LAMBDA k : cfg[k[1]] # Undefined)

\* the provider keys a not-configured message enumerates
ListedKeys(message) ==
  LET marker == "' is not configured. Available providers: "
      at == CHOOSE i \in 1..Len(message) : message[i] = marker
      listed == SubSeq(message, at + 1, Len(message))
  IN IF Len(listed) = 0 THEN <<>> ELSE Split(listed, ", ")

\* the universal options marked '-' in the mapping table
MarkedUnsupported(adapter) ==
  IF adapter = "openai" THEN {<<"word_confidence">>, <<"speaker_labels">>}
  ELSE {<<"temperature">>}

\* the native flag that enables timestamps
FlagKey(adapter) ==
  IF adapter = "openai" THEN <<"response_format">>
  ELSE IF adapter = "deepgram" THEN <<"utterances">>
  ELSE <<"enableWordTimeOffsets">>
FlagValue(adapter) == IF adapter = "openai" THEN "'verbose_json'" ELSE "true"
OwnPrefix(adapter) ==
  IF adapter = "openai" THEN OpenAIPrefix
  ELSE IF adapter = "deepgram" THEN DeepgramPrefix
  ELSE GooglePrefix

Called(op) == call.op = op /\ outcome.status # "none"

\* the Deepgram flag of a universal feature switch
DeepgramFlag(key) ==
  IF key = <<"timestamps">> THEN <<"utterances">>
  ELSE IF key = <<"word_confidence">> THEN <<"smart_format">>
  ELSE <<"diarize">>
KeysOf(obj) == {obj[i][1] : i \in 1..Len(obj)}

\* a result with empty text, no words and no segments; the text of a Google
\* result is the sequence of the transcripts it was joined from
EmptyResult(adapter, value) ==
  /\ IF adapter = "google" THEN value.text = <<>> ELSE value.text = "''"
  /\ value.words = <<>>
  /\ value.segments = <<>>

\* the word entries of a native tree, in document order: of the response
\* (OpenAI), of every alternative of every channel (Deepgram), of every
\* alternative of every result (Google)
RECURSIVE Flatten(_)
Flatten(lists) == IF Len(lists) = 0 THEN <<>> ELSE lists[1] \o Flatten(Tail(lists))
ListOf(node, field) == IF Has(node, field) THEN node[field] ELSE <<>>
Holders(adapter, response) ==
  IF adapter = "deepgram"
    THEN (IF Has(response, "results") THEN ListOf(response.results, "channels") ELSE <<>>)
    ELSE ListOf(response, "results")
AllWords(adapter, response) ==
  IF adapter = "openai" THEN ListOf(response, "words")
  ELSE LET holders == Holders(adapter, response) IN
       Flatten([i \in 1..Len(holders) |->
         LET alternatives == ListOf(holders[i], "alternatives") IN
         Flatten([j \in 1..Len(alternatives) |-> ListOf(alternatives[j], "words")])])
\* the segment data of a native tree: segments (OpenAI), utterances (Deepgram),
\* results (Google)
AllSegments(adapter, response) ==
  IF adapter = "openai" THEN ListOf(response, "segments")
  ELSE IF adapter = "deepgram"
    THEN (IF Has(response, "results") THEN ListOf(response.results, "utterances") ELSE <<>>)
  ELSE ListOf(response, "results")
\* the word entries of the alternatives that are read: the response's own
\* (OpenAI), the first alternative of the first channel (Deepgram), the first
\* alternative of each result (Google)
FirstWords(adapter, response) ==
  IF adapter = "openai" THEN ListOf(response, "words")
  ELSE LET all == Holders(adapter, response)
           holders == IF adapter = "deepgram" /\ Len(all) > 1 THEN << all[1] >> ELSE all
       IN Flatten([i \in 1..Len(holders) |->
            LET alternatives == ListOf(holders[i], "alternatives") IN
            IF Len(alternatives) = 0 THEN <<>> ELSE ListOf(alternatives[1], "words")])
\* the result's words are the given native entries, in their order, and none
\* starts after it ends
SameWords(words, native) ==
  /\ Len(words) = Len(native)
  /\ \A i \in 1..Len(words) :
       /\ words[i].text = native[i].word
       /\ words[i].start <= words[i].end
IsSequence(x) == DOMAIN x = 1..Len(x)
\* a field of a time of a word entry, 0 when the time or the field is missing
Part(entry, time, field) ==
  IF Has(entry, time) /\ Has(entry[time], field) THEN entry[time][field] ELSE 0
\* a tree in which nothing that is read as an object is null
Readable(adapter, response) == response \notin UnreadableTrees(adapter)

\* the universal options of a request
UniversalOptions ==
  { <<"language">>, <<"timestamps">>, <<"word_confidence">>, <<"speaker_labels">>,
    <<"temperature">> }
\* a key carrying the adapter's own prefix, or one that is not a universal option
PassedThrough(adapter, key) ==
  StartsWith(key, OwnPrefix(adapter)) \/ key \notin UniversalOptions
\* the key under which such a key is expected in the translation
PassedKey(adapter, key) ==
  IF StartsWith(key, OwnPrefix(adapter))
    THEN Substring(key, Len(OwnPrefix(adapter)))
    ELSE key
\* the native keys one entry of params writes
Written(adapter, entry) == KeysOf(translateParams(adapter, <<"m">>, <<entry>>))
\* the steps of transcribe in the order of the design
StepOrder == <<"validateParams", "translateParams", "audio", "remote", "adaptResponse">>
Rank(step) == CHOOSE i \in 1..Len(StepOrder) : StepOrder[i] = step
\* the steps an adapter has: the Google adapter normalises a canned response
StepsOf(adapter) ==
  IF adapter = "google"
    THEN SelectSeq(StepOrder, LAMBDA step : step # "remote")
    ELSE StepOrder
\* how often a step ran
Times(steps, step) == Cardinality({i \in 1..Len(steps) : steps[i] = step})
\* the outcome of one create invocation on a client of its own, given what
\* its remote call answered, if it has
Alone(cfg, request, options, answer) ==
  LET done == create(initializeProviders(cfg), request, options) IN
  IF done.outcome.status = "pending" /\ Len(answer) = 1
    THEN createReturn(Catch(Label(done.calls[1].adapter), <<done.calls[1].adapter>>,
                            answer[1]))
    ELSE done.outcome
\* the same entries in every insertion order
Reorderings(obj) ==
  IF Len(obj) = 0 THEN {obj}
  ELSE {[i \in 1..Len(obj) |-> obj[order[i]]] : order \in Permutations(1..Len(obj))}
\* no native key is written by two entries of params
WritesApart(adapter, params) ==
  \A i \in 1..Len(params), j \in 1..Len(params) :
    i # j => Written(adapter, params[i]) \cap Written(adapter, params[j]) = {}

(***************************************************************************)
(* Properties                                                              *)
(***************************************************************************)
\* C1: for every identifier p:m with p and m non-empty and free of colons,
\* parseModel returns exactly {provider: p, model: m}.
C1_ParseValid ==
  (Called("parseModel") /\ WellFormed(call.model)) =>
    outcome = Returned([provider |-> ProviderPart(call.model),
                        model |-> ModelPart(call.model)])

C1_Witness ==
  /\ Called("parseModel")
  /\ call.model = <<"openai", ":", "m", "m">>
  /\ outcome.status = "returned"

\* C2: for every identifier with zero colons, two or more colons, or an empty
\* provider or model segment (the empty string included), parseModel throws and
\* the message of the error contains the identifier verbatim.
C2_ParseInvalid ==
  (Called("parseModel") /\ ~WellFormed(call.model)) =>
    /\ outcome.status = "threw"
    /\ Includes(outcome.error.message, call.model)

C2_Witness ==
  /\ Called("parseModel")
  /\ call.model = <<":", "m">>
  /\ outcome.status = "threw"

\* C3 as stated: every parseModel failure is a ModelFormatError whose message
\* names the offending string and the expected "provider:model" shape.
C3_Original ==
  (Called("parseModel") /\ outcome.status = "threw") =>
    /\ outcome.error.class = "ModelFormatError"
    /\ Includes(outcome.error.message, call.model)
    /\ Includes(outcome.error.message, <<"provider:model">>)

\* C3 amended: every parseModel failure is a plain Error (no provider, no code)
\* whose message names the offending string; the message names the expected
\* "provider:model" shape when the identifier does not hold exactly one
\* separator, and says that both provider and model name are required when a
\* segment is empty.
C3_Amended ==
  (Called("parseModel") /\ outcome.status = "threw") =>
    /\ outcome.error.class = "Error"
    /\ outcome.error.provider = <<>>
    /\ outcome.error.code = Undefined
    /\ Includes(outcome.error.message, call.model)
    /\ ColonCount(call.model) # 1 =>
         Includes(outcome.error.message, <<"provider:model">>)
    /\ ColonCount(call.model) = 1 =>
         /\ ~Includes(outcome.error.message, <<"provider:model">>)
         /\ Includes(outcome.error.message,
                     <<"\". Both provider and model name are required.">>)

C3_Witness ==
  /\ Called("parseModel")
  /\ call.model = <<"openai", ":">>
  /\ outcome.status = "threw"

\* C4: create with a well-formed identifier whose provider key has no
\* registered adapter rejects with a ProviderNotConfiguredError whose provider
\* is the parsed key, whose code is PROVIDER_NOT_CONFIGURED and whose message
\* lists exactly the configured keys in registration order; with a malformed
\* identifier it rejects with the format error, whatever is configured.
C4_NotConfigured ==
  Called("create") =>
    LET id == call.request.model IN
    /\ (WellFormed(id) /\ ~ArrayIncludes(ExpectedKeys(config), ProviderPart(id))) =>
         /\ outcome.status = "rejected"
         /\ outcome.error.class = "ProviderNotConfiguredError"
         /\ outcome.error.provider = ProviderPart(id)
         /\ outcome.error.code = "PROVIDER_NOT_CONFIGURED"
         /\ ListedKeys(outcome.error.message) = ExpectedKeys(config)
    /\ ~WellFormed(id) =>
         /\ outcome.status = "rejected"
         /\ outcome.error.class = "Error"
         /\ Head(outcome.error.message) = "Invalid model format: \""
         /\ Includes(outcome.error.message, id)

C4_Witness ==
  /\ Called("create")
  /\ config = [openai |-> Undefined, deepgram |-> "{apiKey}", google |-> Undefined]
  /\ call.request.model = <<"openai", ":", "m">>
  /\ outcome.status = "rejected"
  /\ outcome.error.class = "ProviderNotConfiguredError"

\* C5: for every configuration the construction does not throw, listProviders()
\* returns exactly the present keys in the order openai, deepgram, google, and
\* isProviderConfigured(k) is true exactly when k is in listProviders().
C5_Registry ==
  /\ call.op = "constructor" => outcome.status = "returned"
  /\ listProviders(providers) = ExpectedKeys(config)
  /\ \A k \in QueriedKeys :
       isProviderConfigured(providers, k) <=> ArrayIncludes(listProviders(providers), k)
  /\ Called("listProviders") => outcome = Returned(ExpectedKeys(config))
  /\ Called("isProviderConfigured") =>
       outcome = Returned(ArrayIncludes(ExpectedKeys(config), call.provider))

C5_Witness ==
  /\ Called("listProviders")
  /\ config = [openai |-> Undefined, deepgram |-> "{apiKey}", google |-> "{projectId}"]
  /\ outcome.value = << <<"deepgram">>, <<"google">> >>

\* C6: when the parsed provider key is registered, create calls that adapter's
\* transcribe exactly once with a copy of the request equal to the original in
\* every field but model, which is the bare model name; the caller's request is
\* left unmodified and the adapter's result is returned unchanged.
C6_Forward ==
  Called("create") =>
    LET id == call.request.model IN
    (WellFormed(id) /\ ArrayIncludes(ExpectedKeys(config), ProviderPart(id))) =>
      /\ Len(transcribeCalls) = 1
      /\ <<transcribeCalls[1].adapter>> = ProviderPart(id)
      /\ transcribeCalls[1].request =
           [model |-> ModelPart(id), file |-> call.request.file,
            params |-> call.request.params]
      /\ transcribeCalls[1].options = call.options
      /\ call.after = call.request
      /\ outcome = transcribeCalls[1].outcome

C6_Witness ==
  /\ Called("create")
  /\ call.request.model = <<"deepgram", ":", "m">>
  /\ Len(transcribeCalls) = 1
  /\ outcome.status = "resolved"

\* C7 as stated: for every backend validateParams throws
\* UnsupportedParameterError whenever params holds, with a truthy value, a
\* universal option marked '-' for that backend (word_confidence and
\* speaker_labels for OpenAI, temperature for Deepgram and for Google).
C7_Claim ==
  (/\ Called("validateParams")
   /\ \E k \in MarkedUnsupported(call.adapter) :
        HasKey(call.params, k) /\ Truthy(ValueOf(call.params, k))) =>
    /\ outcome.status = "threw"
    /\ outcome.error.class = "UnsupportedParameterError"

\* C8 as stated: for every backend validateParams does not throw when every
\* universal option marked '-' for that backend is absent or false.
C8_Claim ==
  (/\ Called("validateParams")
   /\ \A k \in MarkedUnsupported(call.adapter) :
        ~HasKey(call.params, k) \/ ValueOf(call.params, k) = "false") =>
    outcome.status = "returned"

\* C9: for every backend validateParams never throws because of a key carrying
\* the backend's own prefix or an unrecognized key that is not in the backend's
\* unsupported list: when no key of params is an unsupported universal option
\* the call returns, and an error it throws names such an option of params.
C9_ExtensionKeysPass ==
  Called("validateParams") =>
    /\ (\A i \in 1..Len(call.params) :
          call.params[i][1] \notin MarkedUnsupported(call.adapter)) =>
         outcome.status = "returned"
    /\ outcome.status = "threw" =>
         \E i \in 1..Len(call.params) :
           /\ call.params[i][1] \in MarkedUnsupported(call.adapter)
           /\ outcome.error = UnsupportedParameterError(call.params[i][1],
                                                        <<call.adapter>>)

C9_Witness ==
  /\ Called("validateParams")
  /\ call.adapter = "openai"
  /\ HasKey(call.params, <<"openai_", "speaker_labels">>)
  /\ HasKey(call.params, <<"custom">>)
  /\ outcome.status = "returned"

\* C10 as stated: for every backend translateParams applied to params in which
\* timestamps is false or absent never produces the timestamp-enabling flag.
C10_Original ==
  (Called("translateParams") /\ ~Truthy(ValueOf(call.params, <<"timestamps">>))) =>
    Prop(outcome.value, FlagKey(call.adapter)) # FlagValue(call.adapter)

\* C10 amended: for every backend translateParams applied to params in which
\* timestamps is false or absent produces the timestamp-enabling native flag
\* only when params itself carries that flag, under its native name or under
\* the native name with the backend's own prefix.
C10_Amended ==
  (/\ Called("translateParams")
   /\ ~Truthy(ValueOf(call.params, <<"timestamps">>))
   /\ Prop(outcome.value, FlagKey(call.adapter)) = FlagValue(call.adapter)) =>
    \/ ValueOf(call.params, FlagKey(call.adapter)) = FlagValue(call.adapter)
    \/ ValueOf(call.params, OwnPrefix(call.adapter) \o FlagKey(call.adapter))
         = FlagValue(call.adapter)

C10_Witness ==
  /\ Called("translateParams")
  /\ call.adapter = "openai"
  /\ call.params = << << <<"timestamps">>, "false" >>,
                      << <<"openai_", "response_format">>, "'verbose_json'" >> >>
  /\ Prop(outcome.value, <<"response_format">>) = "'verbose_json'"

\* C11: on the Deepgram adapter, translateParams of an object whose keys are
\* among timestamps, word_confidence and speaker_labels returns exactly the
\* flags utterances, smart_format, diarize, each true, of the switches whose
\* value is truthy, and no key for a switch whose value is false.
C11_DeepgramFlags ==
  (Called("translateParams") /\ call.adapter = "deepgram"
     /\ KeysOf(call.params) \subseteq UniversalFlags)
  => /\ outcome.status = "returned"
     /\ IsObject(outcome.value)
     /\ AsMap(outcome.value)
          = [k \in {DeepgramFlag(call.params[i][1]) :
                     i \in {j \in 1..Len(call.params) : Truthy(call.params[j][2])}}
               |-> "true"]

\* all three switches true
C11_Witness ==
  /\ Called("translateParams") /\ call.adapter = "deepgram"
  /\ call.params = << << <<"timestamps">>, "true" >>, << <<"word_confidence">>, "true" >>,
                      << <<"speaker_labels">>, "true" >> >>
  /\ AsMap(outcome.value) = AsMap(<< << <<"utterances">>, "true" >>,
                                     << <<"smart_format">>, "true" >>,
                                     << <<"diarize">>, "true" >> >>)

\* C12 as stated: for every backend translateParams maps each key carrying
\* the backend's own prefix to the key without the prefix, and each key that is
\* neither universal nor own-prefixed to itself, with the entry's value.
C12_Original ==
  Called("translateParams") =>
    \A i \in 1..Len(call.params) :
      PassedThrough(call.adapter, call.params[i][1]) =>
        /\ HasKey(outcome.value, PassedKey(call.adapter, call.params[i][1]))
        /\ Prop(outcome.value, PassedKey(call.adapter, call.params[i][1]))
             = call.params[i][2]

\* C12 amended: for every backend translateParams maps each own-prefixed key
\* to the key without the prefix, and each key that is neither universal nor
\* own-prefixed to itself, with the entry's value, whenever no other entry of
\* params writes that same native key.
C12_Amended ==
  Called("translateParams") =>
    \A i \in 1..Len(call.params) :
      (/\ PassedThrough(call.adapter, call.params[i][1])
       /\ \A j \in 1..Len(call.params) \ {i} :
            PassedKey(call.adapter, call.params[i][1])
              \notin Written(call.adapter, call.params[j])) =>
        /\ HasKey(outcome.value, PassedKey(call.adapter, call.params[i][1]))
        /\ Prop(outcome.value, PassedKey(call.adapter, call.params[i][1]))
             = call.params[i][2]

\* a Google-prefixed key and an unrecognized key, both passed through
C12_Witness ==
  /\ Called("translateParams") /\ call.adapter = "google"
  /\ call.params = << << <<"google_", "enableWordTimeOffsets">>, "false" >>,
                      << <<"custom">>, "'verbose_json'" >> >>
  /\ outcome.value = << << <<"enableWordTimeOffsets">>, "false" >>,
                        << <<"custom">>, "'verbose_json'" >> >>

\* C13 as stated: on the Google adapter translateParams with speaker_labels
\* truthy yields enableSpeakerDiarization = true and a diarizationSpeakerCount
\* that is 2 by default and the caller's value when params carries
\* google_diarization_speaker_count.
C13_Claim ==
  (/\ Called("translateParams") /\ call.adapter = "google"
   /\ KeysOf(call.params)
        \subseteq { <<"speaker_labels">>, <<"google_", "diarization_speaker_count">> }
   /\ Truthy(ValueOf(call.params, <<"speaker_labels">>))) =>
    /\ Prop(outcome.value, <<"enableSpeakerDiarization">>) = "true"
    /\ Prop(outcome.value, <<"diarizationSpeakerCount">>)
         = IF HasKey(call.params, <<"google_", "diarization_speaker_count">>)
             THEN ValueOf(call.params, <<"google_", "diarization_speaker_count">>)
             ELSE "2"

\* C14 as stated: for every adapter an audio input that is not a path string, a
\* byte buffer or a byte array makes transcribe reject with an
\* AudioProcessingError, code AUDIO_PROCESSING_ERROR, and no remote call is
\* attempted.
C14_Claim ==
  \A i \in 1..Len(transcribeCalls) :
    transcribeCalls[i].request.file = "other" =>
      /\ transcribeCalls[i].outcome.status = "rejected"
      /\ \E message \in {transcribeCalls[i].outcome.error.message} :
           transcribeCalls[i].outcome.error
             = AudioProcessingError(message, <<transcribeCalls[i].adapter>>)

\* C15: for every adapter every rejection of transcribe is an ASRError whose
\* provider is the adapter's name and whose code is set; what the catch block
\* caught is re-thrown as it is when it is an ASRError, and is otherwise wrapped
\* as an ASRError with code API_ERROR.
C15_Rejections ==
  \A i \in 1..Len(transcribeCalls) :
    transcribeCalls[i].outcome.status = "rejected" =>
      /\ IsASRError(transcribeCalls[i].outcome.error)
      /\ transcribeCalls[i].outcome.error.provider = <<transcribeCalls[i].adapter>>
      /\ transcribeCalls[i].outcome.error.code # Undefined
      /\ Len(transcribeCalls[i].caught) = 1
      /\ IF IsASRError(transcribeCalls[i].caught[1])
           THEN transcribeCalls[i].outcome.error = transcribeCalls[i].caught[1]
           ELSE /\ transcribeCalls[i].outcome.error.class = "ASRError"
                /\ transcribeCalls[i].outcome.error.code = "API_ERROR"

\* the not-ok status of Deepgram, raised as an ASRError inside the try block,
\* leaves transcribe as it was raised
C15_Witness ==
  /\ Len(transcribeCalls) = 1
  /\ transcribeCalls[1].adapter = "deepgram"
  /\ transcribeCalls[1].outcome.status = "rejected"
  /\ transcribeCalls[1].caught
       = << ASRError(<<"Deepgram API error: ", "500 Internal Server Error">>,
                     <<"deepgram">>, "API_ERROR") >>
  /\ transcribeCalls[1].outcome.error = transcribeCalls[1].caught[1]

\* C16 as stated: for every adapter, when options.timeout is present and the
\* remote call never completes, transcribe eventually rejects instead of
\* staying pending.
C16_Claim ==
  (Suspended /\ Truthy(Prop(transcribeCalls[1].options, <<"timeout">>)))
    ~> (Len(transcribeCalls) = 1 /\ transcribeCalls[1].outcome.status = "rejected")

\* C17 as stated: a response tree that cannot be read makes transcribe reject
\* with an ASRError of code API_ERROR, and transcribe never resolves with an
\* empty result (empty text, no words, no segments) in place of a failure, as
\* for a Deepgram body without results.channels[0].alternatives[0].
C17_Claim ==
  \A i \in 1..Len(transcribeCalls) :
    /\ (/\ Len(transcribeCalls[i].caught) = 1
        /\ transcribeCalls[i].caught[1].class = "TypeError") =>
         /\ transcribeCalls[i].outcome.status = "rejected"
         /\ transcribeCalls[i].outcome.error.class = "ASRError"
         /\ transcribeCalls[i].outcome.error.code = "API_ERROR"
    /\ transcribeCalls[i].outcome.status = "resolved" =>
         ~EmptyResult(transcribeCalls[i].adapter, transcribeCalls[i].outcome.value)

\* C18 as stated: a failed remote call, a status that is not ok or any value
\* thrown by the transport or by parsing, makes transcribe reject with an
\* ASRError of code API_ERROR whose message contains the message of the
\* original failure (the status for a response that is not ok).
C18_Claim ==
  \A i \in 1..Len(transcribeCalls) :
    (/\ Len(transcribeCalls[i].caught) = 1
     /\ \/ transcribeCalls[i].caught[1] \in Thrown
        \/ transcribeCalls[i].caught[1].code = "API_ERROR") =>
      /\ transcribeCalls[i].outcome.status = "rejected"
      /\ IsASRError(transcribeCalls[i].outcome.error)
      /\ transcribeCalls[i].outcome.error.code = "API_ERROR"
      /\ Includes(transcribeCalls[i].outcome.error.message,
                  transcribeCalls[i].caught[1].message)

\* C19: for every backend and every native response tree, also one without
\* word list, segment or utterance list or confidence fields, adaptResponse
\* does not throw and returns a result whose words and segments are present
\* and are sequences, empty when the tree holds no such data.
C19_Sequences ==
  (Called("adaptResponse") /\ Readable(call.adapter, call.response)) =>
    /\ outcome.status = "returned"
    /\ {"words", "segments"} \subseteq DOMAIN outcome.value
    /\ IsSequence(outcome.value.words)
    /\ IsSequence(outcome.value.segments)
    /\ AllWords(call.adapter, call.response) = <<>> => outcome.value.words = <<>>
    /\ AllSegments(call.adapter, call.response) = <<>> => outcome.value.segments = <<>>

\* an OpenAI response that is a bare text
C19_Witness ==
  /\ Called("adaptResponse") /\ call.adapter = "openai"
  /\ call.response = [text |-> "'hello'"]
  /\ outcome.status = "returned"
  /\ outcome.value.words = <<>>
  /\ outcome.value.segments = <<>>

\* C20 as stated: for every backend, normalizing a native response that
\* contains N word entries yields a words sequence of length N in the same
\* order, every entry with start <= end.
C20_Original ==
  (Called("adaptResponse") /\ Readable(call.adapter, call.response)) =>
    /\ outcome.status = "returned"
    /\ SameWords(outcome.value.words, AllWords(call.adapter, call.response))

\* C20 amended: for every backend, normalizing a native response whose word
\* entries have start <= end yields as words the N entries of the alternatives
\* it reads (the response's words for OpenAI, the first alternative of the
\* first channel for Deepgram, the first alternative of each result for
\* Google), in the same order, every entry with start <= end.
C20_Amended ==
  (Called("adaptResponse") /\ Readable(call.adapter, call.response)) =>
    /\ outcome.status = "returned"
    /\ SameWords(outcome.value.words, FirstWords(call.adapter, call.response))

\* a Google response of two results with one word each
C20_Witness ==
  /\ Called("adaptResponse") /\ call.adapter = "google"
  /\ Len(ListOf(call.response, "results")) = 2
  /\ outcome.status = "returned"
  /\ Len(outcome.value.words) = 2
  /\ outcome.value.words[1].text = "'a'"
  /\ outcome.value.words[2].text = "'d'"
  /\ outcome.value.words[2].start <= outcome.value.words[2].end

\* C21: in Google response normalization every word's start and end, taken in
\* nanoseconds, are seconds * 1e9 + nanos of its startTime and endTime, a
\* missing seconds or nanos field counting as 0.
C21_GoogleTimes ==
  (Called("adaptResponse") /\ call.adapter = "google"
     /\ Readable(call.adapter, call.response)) =>
    /\ outcome.status = "returned"
    /\ LET native == FirstWords("google", call.response) IN
       /\ Len(outcome.value.words) = Len(native)
       /\ \A i \in 1..Len(native) :
            /\ outcome.value.words[i].start
                 = Part(native[i], "startTime", "seconds") * NanosPerSecond
                   + Part(native[i], "startTime", "nanos")
            /\ outcome.value.words[i].end
                 = Part(native[i], "endTime", "seconds") * NanosPerSecond
                   + Part(native[i], "endTime", "nanos")

\* a word that starts at {nanos} alone and ends at {seconds, nanos}
C21_Witness ==
  /\ Called("adaptResponse") /\ call.adapter = "google"
  /\ outcome.status = "returned"
  /\ \E i \in 1..Len(outcome.value.words) :
       LET native == FirstWords("google", call.response)[i] IN
       /\ Has(native, "startTime") /\ DOMAIN native.startTime = {"nanos"}
       /\ Has(native, "endTime") /\ DOMAIN native.endTime = {"seconds", "nanos"}
       /\ native.endTime.seconds = 1
       /\ outcome.value.words[i].start = NanosPerSecond \div 2
       /\ outcome.value.words[i].end = NanosPerSecond + NanosPerSecond \div 2

\* C22: in every adapter's transcribe the steps run in the order validate,
\* translate, normalize input, remote call, normalize output, none before the
\* ones ahead of it have run; and when validation fails with
\* UnsupportedParameterError (speaker_labels or word_confidence on the OpenAI
\* adapter) the invocation rejects with that error and issues no remote call.
C22_StepOrder ==
  \A i \in 1..Len(transcribeCalls) :
    LET this == transcribeCalls[i]
        steps == this.steps
    IN /\ Len(steps) >= 1
       /\ steps = SubSeq(StepsOf(this.adapter), 1, Len(steps))
       /\ this.outcome.status = "pending" => steps[Len(steps)] = "remote"
       /\ this.outcome.status = "resolved" => steps[Len(steps)] = "adaptResponse"
       /\ (/\ this.adapter = "openai"
           /\ \E key \in MarkedUnsupported("openai") : HasKey(this.request.params, key)) =>
            /\ this.outcome.status = "rejected"
            /\ this.outcome.error.class = "UnsupportedParameterError"
       /\ (/\ Len(this.caught) = 1
           /\ this.caught[1].class = "UnsupportedParameterError") =>
            /\ this.outcome = Rejected(this.caught[1])
            /\ steps = <<"validateParams">>

\* speaker_labels: true on the OpenAI adapter: rejected after validation alone
C22_Witness ==
  /\ Len(transcribeCalls) = 1
  /\ transcribeCalls[1].adapter = "openai"
  /\ ValueOf(transcribeCalls[1].request.params, <<"speaker_labels">>) = "true"
  /\ transcribeCalls[1].outcome.status = "rejected"
  /\ transcribeCalls[1].outcome.error.class = "UnsupportedParameterError"
  /\ transcribeCalls[1].steps = <<"validateParams">>

\* C23: each transcribe invocation issues the remote call at most once, whether
\* it succeeds or fails and whatever options.retries is; a failed call leaves
\* the registry and the caller's request as they were, and the outcome of an
\* invocation is the one the same request, options and remote behaviour give
\* on a freshly constructed client, whatever calls went before.
C23_SingleShot ==
  /\ \A i \in 1..Len(transcribeCalls) : Times(transcribeCalls[i].steps, "remote") <= 1
  /\ call.op = "create" =>
       /\ IF \/ outcome.status = "pending"
             \/ \A i \in 1..Len(transcribeCalls) :
                  Times(transcribeCalls[i].steps, "remote") = 0
            THEN [calls |-> transcribeCalls, outcome |-> outcome]
                   = [field \in {"calls", "outcome"} |->
                        create(initializeProviders(config), call.request,
                               call.options)[field]]
            ELSE outcome.status = "rejected" =>
                   /\ Len(transcribeCalls[1].caught) = 1
                   /\ outcome = Rejected(Wrap(Label(transcribeCalls[1].adapter),
                                              <<transcribeCalls[1].adapter>>,
                                              transcribeCalls[1].caught[1]))
       /\ HasKey(call.options, <<"retries">>) =>
            create(initializeProviders(config), call.request, call.options).outcome
              = create(initializeProviders(config), call.request,
                       SelectSeq(call.options,
                                 LAMBDA entry : entry[1] # <<"retries">>)).outcome
       /\ outcome.status = "rejected" =>
            /\ providers = initializeProviders(config)
            /\ call.after = call.request

\* a call with retries: 3 whose remote call failed: issued once, rejected
C23_Witness ==
  /\ call.op = "create"
  /\ ValueOf(call.options, <<"retries">>) = "3"
  /\ Len(transcribeCalls) = 1
  /\ Times(transcribeCalls[1].steps, "remote") = 1
  /\ outcome.status = "rejected"
  /\ Len(transcribeCalls[1].caught) = 1
  /\ transcribeCalls[1].caught[1] \in Thrown

\* C24: for create invocations in flight together on one client, in every
\* interleaving of their suspension points, the outcome of each equals the
\* outcome it has when run alone with the same request, options and remote
\* answer, and no invocation changes a request object of the caller.
C24_Isolation ==
  call.op = "create" =>
    /\ call.requests = call.passed
    /\ \A i \in 1..Len(outcome) :
         /\ outcome[i] = Alone(config, call.passed[call.issued[i].object],
                               call.issued[i].options, call.issued[i].answer)
         /\ \A j \in 1..Len(transcribeCalls[i]) :
              transcribeCalls[i][j].request.file
                = call.passed[call.issued[i].object].file

\* two invocations on the same request object, the second resolved while the
\* first is still suspended
C24_Witness ==
  /\ call.op = "create"
  /\ Len(outcome) = 2
  /\ call.issued[1].object = call.issued[2].object
  /\ outcome[1].status = "pending"
  /\ outcome[2].status = "resolved"

\* C25: the registry is fixed at construction: after any sequence of create,
\* listProviders and isProviderConfigured calls, successful or failing,
\* listProviders() returns the keys, in the order, that it returns immediately
\* after construction from the same configuration.
C25_RegistryFixed ==
  /\ listProviders(providers) = listProviders(initializeProviders(config))
  /\ Called("listProviders") =>
       outcome = Returned(listProviders(initializeProviders(config)))

\* a create call whose remote call failed, on a client with all three adapters
C25_Witness ==
  /\ call.op = "create"
  /\ Len(transcribeCalls) = 1
  /\ Times(transcribeCalls[1].steps, "remote") = 1
  /\ outcome.status = "rejected"
  /\ listProviders(providers) = << <<"openai">>, <<"deepgram">>, <<"google">> >>

\* C26 as stated: on the OpenAI adapter no params that pass validateParams
\* translate to native parameters with a truthy word_confidence or
\* speaker_labels key, the openai_ prefix included.
C26_Claim ==
  (/\ Called("translateParams") /\ call.adapter = "openai"
   /\ validateParams("openai", <<"m">>, call.params).status = "returned") =>
    \A key \in MarkedUnsupported("openai") : ~Truthy(Prop(outcome.value, key))

\* C27 as stated: in the Deepgram adapter's transcribe the query string sent to
\* the remote call contains the model parameter exactly once and only the
\* model and the translated option keys; the request's file field never
\* appears as a query parameter.
C27_Claim ==
  \A i \in 1..Len(transcribeCalls) :
    LET this == transcribeCalls[i] IN
    (this.adapter = "deepgram" /\ this.outcome.status = "pending") =>
      LET query == this.outcome.remote.request IN
      /\ Cardinality({j \in 1..Len(query) : query[j][1] = <<"model">>}) = 1
      /\ \A j \in 1..Len(query) :
           /\ query[j][1] # <<"file">>
           /\ query[j][1] \in
                {<<"model">>}
                \cup KeysOf(translateParams("deepgram", this.request.model,
                                            this.request.params))

\* C28 as stated: in the OpenAI adapter's transcribe the file field of the
\* object passed to the remote call is the normalized audio, a read stream for
\* a path and a File object for a byte buffer or byte array, and never the
\* caller's raw file value.
C28_Claim ==
  \A i \in 1..Len(transcribeCalls) :
    LET this == transcribeCalls[i] IN
    (this.adapter = "openai" /\ this.outcome.status = "pending") =>
      LET sent == Prop(this.outcome.remote.request, <<"file">>) IN
      /\ sent # this.request.file
      /\ IsPath(this.request.file) => sent = "ReadStream"
      /\ this.request.file \in {"Buffer", "Uint8Array"} => sent = "File"

====
